---- MODULE Spec2Model ----
(***************************************************************************)
(* Verification model of the mind-map editor's placement engine (32.py):   *)
(* the grid spatial index _SpatialHash, the node lifecycle that keeps it   *)
(* in step with node positions, the incremental free-slot search and the   *)
(* radial / tree layouts.                                                  *)
(*                                                                         *)
(* Numbers.  Coordinates, radii and lengths are integers (pixels).         *)
(* Angles are integers in millidegrees (360000 to the turn); sines and     *)
(* cosines are fixed-point with scale TrigScale.  Python's float           *)
(* arithmetic is modelled by integer arithmetic with the same rounding     *)
(* direction (floor division for //, int() and %, round-half-even for      *)
(* round()).  Where the program's result hangs on the rounding errors of   *)
(* its floats (a comparison of two sums that are the same angle, a polar   *)
(* point snapped from half-way between two grid lines) the model takes     *)
(* every outcome.                                                          *)
(***************************************************************************)
EXTENDS Integers, Sequences, FiniteSets, TLC

VARIABLES
    cell,       \* _SpatialHash.cell
    grid,       \* _SpatialHash.grid   : (ix,iy) -> set of names (only keys present)
    radius,     \* _SpatialHash.radius : name -> cached radius   (only keys present)
    regpos,     \* history: name -> centre given to the last insert / move of the name
    hits,       \* what neighbors() returned, when the last call was neighbors()
    query,      \* its arguments <<x, y, r>>; <<>> when the last call was another
    irregular,  \* history: number of calls made outside the documented use
    call,       \* history: the last insert / move / remove made on the index
                \* directly, its arguments and the index before it; else <<>>
    nodes,      \* MindMapApp.nodes: the names of the existing node items
    npos,       \* name -> <<x, y>>, the node item's pos()
    nsize,      \* name -> <<w, h>>, the node item's boundingRect() size
    pos_cache,  \* MindMapApp._pos_cache: name -> <<x, y>>
    snap_step,  \* MindMapApp.snap_step
    nset,       \* history: how many times the settings dialog has been accepted
    log,        \* history: the index-related steps of the last handler, in order
    edges,      \* MindMapApp.graph: the undirected edges, each a set {u, v}
    lca,        \* graph.nodes[name]['last_child_angle']: name -> angle (only keys present)
    root,       \* MindMapApp.root_node_name (NoName for None)
    slot,       \* history: what the last _find_free_slot call did and returned
    conf,       \* TARGET_EDGE, RADIAL_BASE_R, SPATIAL_HASH_CELL_SIZE and the
                \* viewport centre in the scene
    lay,        \* history: what the last arrange_radial / arrange_tree computed,
                \* the children lists it used and the root set before it
    ringplan,   \* the locals of assign() while it plans the rings of one node's
                \* children (where it is, m, usable_width, r_base, extra, the
                \* capacity, ring_radii, counts, total) and the parity of the
                \* loop iterations run; <<>> outside
    undo_stack, \* MindMapApp.undo_stack: the snapshots push_history appended, the
                \* oldest first (followed in SpecHistory and SpecLimit, left
                \* empty where the history is not looked at)
    redo_stack  \* MindMapApp.redo_stack: the snapshots undo took off undo_stack

shVars == <<cell, grid, radius, regpos, hits, query, irregular, call>>

appVars == <<nodes, npos, nsize, pos_cache, snap_step, nset, log>>

histVars == <<undo_stack, redo_stack>>

graphVars == <<edges, lca, root, slot, conf, lay, ringplan, histVars>>

vars == <<shVars, appVars, graphVars>>

----------------------------------------------------------------------------
(* Generic helpers for Python dicts modelled as functions with a finite    *)
(* domain.                                                                 *)

EmptyMap == [k \in {} |-> 0]

\* v itself, evaluated once (a dict built by a comprehension, then only read)
Fix(v) == CHOOSE x \in {v} : x = x

Put(f, k, v) == Fix([x \in DOMAIN f \cup {k} |-> IF x = k THEN v ELSE f[x]])

Drop(f, k) == [x \in DOMAIN f \ {k} |-> f[x]]

Get(f, k, d) == IF k \in DOMAIN f THEN f[k] ELSE d

Max2(a, b) == IF a >= b THEN a ELSE b

Min2(a, b) == IF a <= b THEN a ELSE b

Abs(a) == IF a < 0 THEN -a ELSE a


----------------------------------------------------------------------------
(* _SpatialHash                                                            *)

MinCell == 40

\* MindMapApp.SNAP_STEP default
SnapStepDefault == 40

\* Python's None where a name is expected
NoName == "None"

\* self.TARGET_EDGE and self.RADIAL_BASE_R as set_default_settings leaves them
TargetEdgeDefault == 180

RadialBaseRDefault == 80

DefaultCell == 120

\* self.RADIAL_STRETCH_STEP as set_default_settings leaves it
RadialStretchStep == 40

\* self.HISTORY_LIMIT as set_default_settings leaves it
HistoryLimitDefault == 100

\* cell_size is self.SPATIAL_HASH_CELL_SIZE in tenths (a settings file may
\* hold a float); stretch_step is self.RADIAL_STRETCH_STEP; history_limit
\* is self.HISTORY_LIMIT
DefaultConf == [target_edge |-> TargetEdgeDefault, base_r |-> RadialBaseRDefault,
                center |-> <<0, 0>>, cell_size |-> 10 * DefaultCell,
                stretch_step |-> RadialStretchStep,
                history_limit |-> HistoryLimitDefault]

\* int(v) for v given in tenths: truncation towards zero
IntTrunc(v10) == IF v10 >= 0 THEN v10 \div 10 ELSE -((-v10) \div 10)

\* a plausible slip: the configured size taken as it is
ClampCellNone(c) == c

\* __init__: self.cell = max(40, int(cell))
ClampCell(c) == Max2(MinCell, c)

\* _keys_for with an explicit cell size
KeysForCell(c, x, y, r) ==
    { <<ix, iy>> : ix \in ((x - r) \div c) .. ((x + r) \div c),
                   iy \in ((y - r) \div c) .. ((y + r) \div c) }

\* a plausible slip: the centre cell only, the radius ignored
KeysForCentreOnly(x, y, r) == { <<x \div cell, y \div cell>> }

\* _keys_for(x, y, r)
KeysFor(x, y, r) == KeysForCell(cell, x, y, r)

\* grid after name is added to every bucket of ks (defaultdict / setdefault)
GridAdd(g, ks, name) ==
    LET gv == Fix(g)
        kv == Fix(ks)
    IN  Fix([k \in DOMAIN gv \cup kv |->
                IF k \in kv THEN Get(gv, k, {}) \cup {name} ELSE gv[k]])

\* a plausible slip: the name discarded, the emptied bucket left in the map
GridDiscardNoPop(g, ks, name) ==
    LET gv == Fix(g)
    IN  Fix([k \in DOMAIN gv |-> IF k \in ks THEN gv[k] \ {name} ELSE gv[k]])

\* grid after name is discarded from every bucket of ks; a bucket that was
\* non-empty and becomes empty is popped ("if s:" skips an empty bucket)
GridDiscard(g, ks, name) ==
    LET gv == Fix(g)
        touched == { k \in ks \cap DOMAIN gv : gv[k] # {} }
        gone    == { k \in touched : gv[k] \ {name} = {} }
    IN  Fix([k \in DOMAIN gv \ gone |->
                IF k \in touched THEN gv[k] \ {name} ELSE gv[k]])

\* a plausible slip: "^=" for "|=", the name toggled in every covered bucket
InsertGridXor(g, name, x, y, r) ==
    LET gv == Fix(g)
        kv == Fix(KeysFor(x, y, r))
    IN  Fix([k \in DOMAIN gv \cup kv |->
                IF k \notin kv THEN gv[k]
                ELSE IF name \in Get(gv, k, {}) THEN gv[k] \ {name}
                ELSE Get(gv, k, {}) \cup {name}])

\* insert(name, x, y, r): the grid part
InsertGrid(g, name, x, y, r) == GridAdd(g, KeysFor(x, y, r), name)

\* remove(name, x, y): the grid part
RemoveGrid(g, rad, name, x, y) ==
    GridDiscard(g, KeysFor(x, y, Get(rad, name, 0)), name)

\* a plausible slip: move written as remove-then-insert, every old cell
\* discarded from and every new cell added to, whether shared or not
MoveGridReinsert(g, rad, name, oldx, oldy, newx, newy) ==
    GridAdd(GridDiscard(g, KeysFor(oldx, oldy, Get(rad, name, 0)), name),
            KeysFor(newx, newy, Get(rad, name, 0)), name)

\* a plausible slip: the name taken out of the cells left behind, and not
\* entered in the cells newly covered
MoveGridDiscardOnly(g, rad, name, oldx, oldy, newx, newy) ==
    GridDiscard(g, KeysFor(oldx, oldy, Get(rad, name, 0))
                     \ KeysFor(newx, newy, Get(rad, name, 0)), name)

\* move(name, oldx, oldy, newx, newy): the grid part
MoveGrid(g, rad, name, oldx, oldy, newx, newy) ==
    LET r == Get(rad, name, 0)
        old_keys == KeysFor(oldx, oldy, r)
        new_keys == KeysFor(newx, newy, r)
    IN  GridAdd(GridDiscard(g, old_keys \ new_keys, name),
                new_keys \ old_keys, name)

\* neighbors(x, y, r)
NeighborsOf(g, x, y, r) ==
    UNION { Get(g, k, {}) : k \in KeysFor(x, y, r) }

\* the cells in which name occurs
CellsOf(g, name) == { k \in DOMAIN g : name \in g[k] }

----------------------------------------------------------------------------
(* Specification SpecSH: the index driven directly by its four methods.    *)
(* A registered name (one with a radius-cache entry) is moved and removed  *)
(* with the centre it was last registered at; insert may re-register a     *)
(* name anywhere; move and remove may also be called, with any arguments,  *)
(* on a name that has no radius-cache entry.  The calls of the last two    *)
(* kinds (re-registering a registered name with other arguments, moving or *)
(* removing an unregistered name) are counted, at most MaxIrregular of     *)
(* them are made in one run; the regular calls are unbounded.              *)

MaxIrregular == 1

Ids == {"a", "b"}

CellConfigs == {20, DefaultCell}

Points == { <<10, 10>>, <<20, 10>>, <<90, 100>> }

Radii == {25, 70}

QueryRadii == {60}

ProbeRadii == {0, 60}

InitSH ==
    /\ cell \in { ClampCell(c) : c \in CellConfigs }
    /\ grid = EmptyMap
    /\ radius = EmptyMap
    /\ regpos = EmptyMap
    /\ hits = {}
    /\ query = <<>>
    /\ irregular = 0
    /\ call = <<>>
    /\ nodes = {} /\ npos = EmptyMap /\ nsize = EmptyMap
    /\ pos_cache = EmptyMap /\ log = <<>>
    /\ snap_step = SnapStepDefault /\ nset = 0
    /\ edges = {} /\ lca = EmptyMap /\ root = NoName /\ slot = <<>>
    /\ conf = DefaultConf /\ lay = <<>> /\ ringplan = <<>>
    /\ undo_stack = <<>> /\ redo_stack = <<>>

\* what call records: the method, its arguments (q is move's new centre, r
\* is insert's radius) and the grid and the radius cache as the call found them
CallRec(op, name, p, q, r) ==
    [op |-> op, name |-> name, p |-> p, q |-> q, r |-> r,
     grid0 |-> grid, radius0 |-> radius]

SHInsert ==
    \E name \in Ids, p \in Points, r \in Radii :
        /\ IF name \in DOMAIN radius /\ <<p, r>> # <<regpos[name], radius[name]>>
              THEN irregular < MaxIrregular /\ irregular' = irregular + 1
              ELSE irregular' = irregular
        /\ radius' = Put(radius, name, r)
        /\ grid' = InsertGrid(grid, name, p[1], p[2], r)
        /\ regpos' = Put(regpos, name, p)
        /\ hits' = {} /\ query' = <<>>
        /\ call' = CallRec("insert", name, p, <<>>, r)
        /\ UNCHANGED <<cell, appVars, graphVars>>

SHRemove ==
    \E name \in Ids, p \in Points :
        /\ IF name \in DOMAIN radius
              THEN p = regpos[name] /\ irregular' = irregular
              ELSE irregular < MaxIrregular /\ irregular' = irregular + 1
        /\ grid' = RemoveGrid(grid, radius, name, p[1], p[2])
        /\ radius' = Drop(radius, name)
        /\ regpos' = Drop(regpos, name)
        /\ hits' = {} /\ query' = <<>>
        /\ call' = CallRec("remove", name, p, <<>>, 0)
        /\ UNCHANGED <<cell, appVars, graphVars>>

SHMove ==
    \E name \in Ids, o \in Points, n \in Points :
        /\ IF name \in DOMAIN radius
              THEN o = regpos[name] /\ irregular' = irregular
              ELSE irregular < MaxIrregular /\ irregular' = irregular + 1
        /\ grid' = MoveGrid(grid, radius, name, o[1], o[2], n[1], n[2])
        /\ regpos' = IF name \in DOMAIN radius THEN Put(regpos, name, n)
                                              ELSE regpos
        /\ hits' = {} /\ query' = <<>>
        /\ call' = CallRec("move", name, o, n, 0)
        /\ UNCHANGED <<cell, radius, appVars, graphVars>>

SHNeighbors ==
    \E p \in Points, r \in QueryRadii :
        /\ hits' = NeighborsOf(grid, p[1], p[2], r)
        /\ query' = <<p[1], p[2], r>>
        /\ call' = <<>>
        /\ UNCHANGED <<cell, grid, radius, regpos, irregular, appVars, graphVars>>

NextSH == SHInsert \/ SHRemove \/ SHMove \/ SHNeighbors

SpecSH == InitSH /\ [][NextSH]_vars

----------------------------------------------------------------------------
(* Node items, node sizes and snapping                                     *)

DefaultAvgSize == 140

MinDiag == 120

RadiusBuffer == 10

MinNodeDistance == 140

\* Python's round(a / b) for b > 0: nearest integer, ties to the even one
RoundHalfEven(a, b) ==
    LET q == a \div b
        rem == a % b
    IN  IF 2 * rem < b THEN q
        ELSE IF 2 * rem > b THEN q + 1
        ELSE IF q % 2 = 0 THEN q ELSE q + 1

\* a plausible slip: truncation instead of rounding
SnapFloor(step, p) == << (p[1] \div step) * step, (p[2] \div step) * step >>

\* _snap(p) / MindMapNode.itemChange(ItemPositionChange): the nearest grid point
Snap(step, p) ==
    << RoundHalfEven(p[1], step) * step, RoundHalfEven(p[2], step) * step >>

RECURSIVE IsqrtRec(_, _, _)
IsqrtRec(n, lo, hi) ==
    IF lo >= hi THEN lo
    ELSE CHOOSE r \in { IF mid * mid <= n THEN IsqrtRec(n, mid, hi)
                                          ELSE IsqrtRec(n, lo, mid - 1) :
                        mid \in { (lo + hi + 1) \div 2 } } : TRUE

\* floor of the square root (math.sqrt / ** 0.5 at pixel resolution)
Isqrt(n) == IsqrtRec(n, 0, Min2(n, 46340))

RECURSIVE SumOver(_, _, _)
SumOver(f, S, i) ==
    IF S = {} THEN 0
    ELSE CHOOSE r \in UNION { { f[x][i] + SumOver(f, T, i) : T \in { S \ {x} } } :
                              x \in { CHOOSE y \in S : TRUE } } : TRUE

\* _calculate_average_node_size(): sqrt(avg_w^2 + avg_h^2), 140 without nodes
AvgNodeSizeOf(ns, sz) ==
    IF ns = {} THEN DefaultAvgSize
    ELSE LET tw == SumOver(sz, ns, 1)
             th == SumOver(sz, ns, 2)
         IN  Isqrt(tw * tw + th * th) \div Cardinality(ns)

AvgNodeSize == AvgNodeSizeOf(nodes, nsize)

\* _node_radius_px(name) in a state with node set ns and sizes sz:
\* half the bounding-rect diagonal plus 10; for None or an unknown name the
\* diagonal is max(120, average size)
NodeRadiusPxOf(ns, sz, name) ==
    LET diag == IF name \in ns
                THEN Isqrt(sz[name][1] * sz[name][1] + sz[name][2] * sz[name][2])
                ELSE Max2(MinDiag, AvgNodeSizeOf(ns, sz))
    IN  diag \div 2 + RadiusBuffer

NodeRadiusPx(name) == NodeRadiusPxOf(nodes, nsize, name)

\* r_new of _is_pos_free
RNew(min_dist) == Max2(min_dist \div 2, NodeRadiusPx(NoName))

\* a plausible slip: the test compares centre distances with min_dist alone
BlockersMinDistOnly(p, min_dist) ==
    { nm \in NeighborsOf(grid, p[1], p[2], min_dist) :
        /\ nm \in nodes
        /\ LET dx == npos[nm][1] - p[1]
               dy == npos[nm][2] - p[2]
           IN  dx * dx + dy * dy < min_dist * min_dist }

\* the names that make _is_pos_free(pos, min_dist) return False
Blockers(p, min_dist) ==
    LET r_new == RNew(min_dist)
    IN  { nm \in NeighborsOf(grid, p[1], p[2], r_new) :
            /\ nm \in nodes
            /\ LET r_sum == Get(radius, nm, NodeRadiusPx(nm)) + r_new
                   dx == npos[nm][1] - p[1]
                   dy == npos[nm][2] - p[2]
               IN  dx * dx + dy * dy < r_sum * r_sum }

\* _is_pos_free(pos, min_dist)
IsPosFree(p, min_dist) == Blockers(p, min_dist) = {}

----------------------------------------------------------------------------
(* Node lifecycle handlers.  A handler works on the record                 *)
(*   [grid, radius, pos_cache, npos, log]                                  *)
(* and returns the record it leaves; log collects, in call order, "pos"    *)
(* (the item's position changed), "insert", "move", "remove" (index calls) *)
(* and "query" (neighbors through _is_pos_free).                           *)

Cur == [grid |-> grid, radius |-> radius, pos_cache |-> pos_cache,
        npos |-> npos, log |-> <<>>]

\* a plausible slip: the handler forgets the index and only refreshes the cache
OnNodeMovedNoIndex(st, n) ==
    IF n \notin nodes THEN st
    ELSE [st EXCEPT !.pos_cache = Put(@, n, st.npos[n])]

\* _on_node_moved(node)
OnNodeMoved(st, n) ==
    IF n \notin nodes THEN st
    ELSE LET sv == Fix(st)
             old == Get(sv.pos_cache, n, sv.npos[n])
             new == sv.npos[n]
         IN  [sv EXCEPT
                !.grid = MoveGrid(sv.grid, sv.radius, n, old[1], old[2], new[1], new[2]),
                !.pos_cache = Put(@, n, new),
                !.log = Append(@, "move")]

\* QGraphicsItem.setPos on an item in the scene: itemChange snaps the value;
\* when the position really changes, ItemPositionHasChanged emits moved,
\* which runs _on_node_moved synchronously
ItemSetPos(st, n, value) ==
    LET sv == Fix(st)
        snapped == Snap(snap_step, value)
    IN  IF snapped = sv.npos[n] THEN sv
        ELSE OnNodeMoved([sv EXCEPT !.npos = Put(@, n, snapped),
                                    !.log = Append(@, "pos")], n)

\* _set_node_pos(n, p)
SetNodePos(st, n, p) ==
    IF n \notin nodes THEN st
    ELSE LET s1 == Fix(ItemSetPos(st, n, p))
             old == Get(s1.pos_cache, n, s1.npos[n])
         IN  [s1 EXCEPT
                !.grid = MoveGrid(s1.grid, s1.radius, n, old[1], old[2], p[1], p[2]),
                !.pos_cache = Put(@, n, p),
                !.log = Append(@, "move")]

Install(st) ==
    /\ grid' = st.grid
    /\ radius' = st.radius
    /\ pos_cache' = st.pos_cache
    /\ npos' = st.npos
    /\ log' = st.log

----------------------------------------------------------------------------
(* Specification SpecApp: node creation, drag, layout position change,     *)
(* deletion and collision queries as the application issues them.          *)

MaxNodes == 2

NameSeq == <<"n1", "n2", "n3", "n4">>

AppNames == { NameSeq[i] : i \in 1 .. Min2(MaxNodes, Len(NameSeq)) }

NameIndex(n) == CHOOSE i \in 1 .. Len(NameSeq) : NameSeq[i] = n

SlotNames == { "n1", "n2", "n3" }

RawPoints == { <<0, 0>>, <<20, 60>>, <<130, 100>>, <<-70, 10>> }

NodeSizes == { <<80, 60>>, <<160, 120>> }

InitApp ==
    /\ cell = ClampCell(DefaultCell)
    /\ grid = EmptyMap
    /\ radius = EmptyMap
    /\ regpos = EmptyMap
    /\ hits = {} /\ query = <<>> /\ irregular = 0 /\ call = <<>>
    /\ nodes = {} /\ npos = EmptyMap /\ nsize = EmptyMap
    /\ pos_cache = EmptyMap /\ log = <<>>
    /\ snap_step = SnapStepDefault /\ nset = 0
    /\ edges = {} /\ lca = EmptyMap /\ root = NoName /\ slot = <<>>
    /\ conf = DefaultConf /\ lay = <<>> /\ ringplan = <<>>
    /\ undo_stack = <<>> /\ redo_stack = <<>>

\* _create_node_at(name, pos, color) for a fresh name (callers pass a unique
\* name and a snapped position)
CreateNodeAtIn(names, points) ==
    \E name \in names \ nodes, v \in points, sz \in NodeSizes :
        LET pos == Snap(snap_step, v)
            r == NodeRadiusPxOf(nodes \cup {name}, Put(nsize, name, sz), name)
        IN  /\ nodes' = nodes \cup {name}
            /\ npos' = Put(npos, name, pos)
            /\ nsize' = Put(nsize, name, sz)
            /\ pos_cache' = Put(pos_cache, name, pos)
            /\ radius' = Put(radius, name, r)
            /\ grid' = InsertGrid(grid, name, pos[1], pos[2], r)
            /\ log' = <<"pos", "insert">>
            /\ hits' = {} /\ query' = <<>>
            /\ root' = IF root = NoName THEN name ELSE root
            /\ UNCHANGED <<cell, regpos, irregular, call, snap_step, nset, edges, lca, slot, conf, lay, ringplan, histVars>>

CreateNodeAt == CreateNodeAtIn(AppNames, RawPoints)

\* the user drags a node: setPos(value) on the item
DragNodeIn(points) ==
    \E n \in nodes, v \in points :
        /\ Install(ItemSetPos(Cur, n, v))
        /\ hits' = {} /\ query' = <<>>
        /\ UNCHANGED <<cell, regpos, irregular, call, nodes, nsize, snap_step, nset, graphVars>>

DragNode == DragNodeIn(RawPoints)

\* a layout places a node: _set_node_pos(n, _snap(p))
LayoutSetPos ==
    \E n \in nodes, v \in RawPoints :
        /\ Install(SetNodePos(Cur, n, Snap(snap_step, v)))
        /\ hits' = {} /\ query' = <<>>
        /\ UNCHANGED <<cell, regpos, irregular, call, nodes, nsize, snap_step, nset, graphVars>>

\* delete_specific_node(node_item)
DeleteNode ==
    \E name \in nodes :
        /\ grid' = RemoveGrid(grid, radius, name, npos[name][1], npos[name][2])
        /\ radius' = Drop(radius, name)
        /\ pos_cache' = Drop(pos_cache, name)
        /\ nodes' = nodes \ {name}
        /\ npos' = Drop(npos, name)
        /\ nsize' = Drop(nsize, name)
        /\ log' = <<"remove">>
        /\ hits' = {} /\ query' = <<>>
        /\ IF name # root THEN root' = root
           ELSE IF nodes \ {name} = {} THEN root' = NoName
           ELSE root' \in nodes \ {name}
        /\ edges' = { e \in edges : name \notin e }
        /\ lca' = Drop(lca, name)
        /\ UNCHANGED <<cell, regpos, irregular, call, snap_step, nset, slot, conf, lay, ringplan, histVars>>

\* _is_pos_free(pos, MIN_NODE_DISTANCE) asked between two handlers
QueryPosFree ==
    \E v \in RawPoints :
        /\ query' = <<v[1], v[2], RNew(MinNodeDistance)>>
        /\ hits' = Blockers(v, MinNodeDistance)
        /\ log' = <<"query">>
        /\ UNCHANGED <<cell, grid, radius, regpos, irregular, call,
                       nodes, npos, nsize, pos_cache, snap_step, nset, graphVars>>

NextApp == CreateNodeAt \/ DragNode \/ LayoutSetPos \/ DeleteNode \/ QueryPosFree

SpecApp == InitApp /\ [][NextApp]_vars

----------------------------------------------------------------------------
(* Specification SpecSettings: the application over its life with respect  *)
(* to the index's cell size.  MindMapApp.__init__ loads the settings file, *)
(* which may hold any number for SPATIAL_HASH_CELL_SIZE, and constructs    *)
(* the index; nodes are created, dragged and deleted; the settings dialog  *)
(* is accepted (its spin boxes give integers within their ranges);         *)
(* _rebuild_spatial_hash replaces the index by a new one built from the    *)
(* existing nodes.                                                         *)

\* the settings dialog is accepted at most MaxSettings times in one run
MaxSettings == 1

\* SPATIAL_HASH_CELL_SIZE values of a settings file, in tenths
CellFileValues10 == {-50, 399, 405, 10 * DefaultCell}

\* values of spatial_hash_cell_spin (range 40 .. 240)
DialogCells == {MinCell, 240}

\* values of target_edge_spin (range 120 .. 320)
DialogTargetEdges == {TargetEdgeDefault, 120}

SettingsNames == {"n1", "n2"}

SettingsPoints == { <<0, 0>>, <<130, 100>> }

SettingsCreateNode == CreateNodeAtIn(SettingsNames, SettingsPoints)

SettingsDragNode == DragNodeIn(SettingsPoints)

InitSettings ==
    /\ \E v10 \in CellFileValues10 :
          /\ conf = [DefaultConf EXCEPT !.cell_size = v10]
          /\ cell = ClampCell(IntTrunc(v10))
    /\ grid = EmptyMap
    /\ radius = EmptyMap
    /\ regpos = EmptyMap
    /\ hits = {} /\ query = <<>> /\ irregular = 0 /\ call = <<>>
    /\ nodes = {} /\ npos = EmptyMap /\ nsize = EmptyMap
    /\ pos_cache = EmptyMap /\ log = <<>>
    /\ snap_step = SnapStepDefault /\ nset = 0
    /\ edges = {} /\ lca = EmptyMap /\ root = NoName /\ slot = <<>>
    /\ lay = <<>> /\ ringplan = <<>>
    /\ undo_stack = <<>> /\ redo_stack = <<>>

\* open_settings with the dialog accepted: every setting is written from its
\* spin box (of those kept in conf the cell size and TARGET_EDGE are varied),
\* then _update_components_after_settings_change sets the index's cell size;
\* the grid and the radius cache are not touched
OpenSettings ==
    \E d \in DialogCells, te \in DialogTargetEdges :
        /\ conf' = [conf EXCEPT !.cell_size = 10 * d, !.target_edge = te]
        /\ cell' = Max2(MinCell, d)
        /\ nset < MaxSettings /\ nset' = nset + 1
        /\ log' = <<"settings">>
        /\ hits' = {} /\ query' = <<>>
        /\ UNCHANGED <<grid, radius, regpos, irregular, call, nodes, npos, nsize,
                       pos_cache, snap_step, edges, lca, root, slot, lay, ringplan, histVars>>

\* the inserts of _rebuild_spatial_hash made into the index it already has
RebuiltGridOnto(c, at, rad) ==
    [k \in DOMAIN grid \cup UNION { KeysForCell(c, at[n][1], at[n][2], rad[n]) : n \in DOMAIN at }
        |-> Get(grid, k, {}) \cup { n \in DOMAIN at : k \in KeysForCell(c, at[n][1], at[n][2], rad[n]) }]

\* the grid of _SpatialHash(cell = c) after insert(name, x, y, r) of every
\* name of at, at its point at[name] with its radius rad[name]
RebuiltGrid(c, at, rad) ==
    [k \in UNION { KeysForCell(c, at[n][1], at[n][2], rad[n]) : n \in DOMAIN at }
        |-> { n \in DOMAIN at : k \in KeysForCell(c, at[n][1], at[n][2], rad[n]) }]

\* _rebuild_spatial_hash(): a new index of the configured cell size, every
\* existing node inserted at its cached position (its current position,
\* which is then cached, when it has none) with its node radius
RebuildSpatialHash ==
    \E c \in { ClampCell(IntTrunc(conf.cell_size)) } :
    \E at \in { [n \in nodes |-> Get(pos_cache, n, npos[n])] } :
    \E rad \in { [n \in nodes |-> NodeRadiusPx(n)] } :
        /\ cell' = c
        /\ radius' = rad
        /\ grid' = RebuiltGrid(c, at, rad)
        /\ pos_cache' = [n \in DOMAIN pos_cache \cup nodes |->
                            IF n \in DOMAIN pos_cache THEN pos_cache[n] ELSE npos[n]]
        /\ log' = <<"rebuild">>
        /\ hits' = {} /\ query' = <<>>
        /\ UNCHANGED <<regpos, irregular, call, nodes, npos, nsize, snap_step, nset,
                       graphVars>>

NextSettings ==
    \/ SettingsCreateNode
    \/ SettingsDragNode
    \/ DeleteNode
    \/ OpenSettings
    \/ RebuildSpatialHash

SpecSettings == InitSettings /\ [][NextSettings]_vars

----------------------------------------------------------------------------
(* Angles and trigonometry.  Angles are millidegrees; Sin and Cos return   *)
(* TrigScale times the value, from a one-degree table with linear          *)
(* interpolation (error below 1e-4).                                       *)

\* twopi = 2.0 * math.pi
TwoPi == 360000

Pi == TwoPi \div 2

HalfPi == TwoPi \div 4

\* math.radians(137.50776405003785), the golden angle
Golden == 137508

SinTab ==
    << 0, 175, 349, 523, 698, 872, 1045, 1219, 1392, 1564,
       1736, 1908, 2079, 2250, 2419, 2588, 2756, 2924, 3090, 3256,
       3420, 3584, 3746, 3907, 4067, 4226, 4384, 4540, 4695, 4848,
       5000, 5150, 5299, 5446, 5592, 5736, 5878, 6018, 6157, 6293,
       6428, 6561, 6691, 6820, 6947, 7071, 7193, 7314, 7431, 7547,
       7660, 7771, 7880, 7986, 8090, 8192, 8290, 8387, 8480, 8572,
       8660, 8746, 8829, 8910, 8988, 9063, 9135, 9205, 9272, 9336,
       9397, 9455, 9511, 9563, 9613, 9659, 9703, 9744, 9781, 9816,
       9848, 9877, 9903, 9925, 9945, 9962, 9976, 9986, 9994, 9998,
       10000 >>

\* the value the table gives for 1.0
TrigScale == SinTab[91]

\* _angle_normalize(a): a % 2pi, in [0, 2pi)
AngleNormalize(a) == a % TwoPi

\* sine of an angle in [0, 90 degrees]
SinQ(a) ==
    LET d == a \div 1000
        f == a % 1000
    IN  IF f = 0 THEN SinTab[d + 1]
        ELSE (SinTab[d + 1] * (1000 - f) + SinTab[d + 2] * f + 500) \div 1000

\* math.sin
Sin(a) ==
    LET b == AngleNormalize(a)
    IN  IF b <= HalfPi THEN SinQ(b)
        ELSE IF b <= Pi THEN SinQ(Pi - b)
        ELSE IF b <= Pi + HalfPi THEN -SinQ(b - Pi)
        ELSE -SinQ(TwoPi - b)

\* math.cos
Cos(a) == Sin(a + HalfPi)

\* math.atan2 for dx >= 0, dy >= 0, not both 0: the largest angle t in
\* lo .. hi with dy * cos t - dx * sin t >= 0 (bisection on the table)
RECURSIVE AtanQ(_, _, _, _)
AtanQ(dy, dx, lo, hi) ==
    IF lo >= hi THEN lo
    ELSE CHOOSE r \in { IF dy * SinQ(HalfPi - mid) - dx * SinQ(mid) >= 0
                        THEN AtanQ(dy, dx, mid, hi)
                        ELSE AtanQ(dy, dx, lo, mid - 1) :
                        mid \in { (lo + hi + 1) \div 2 } } : TRUE

\* atan2 in the first quadrant, exact on the axes and the diagonal
AtanFirst(dy, dx) ==
    IF dy = 0 THEN 0
    ELSE IF dx = 0 THEN HalfPi
    ELSE IF dx = dy THEN HalfPi \div 2
    ELSE AtanQ(dy, dx, 0, HalfPi)

\* _angle_normalize(math.atan2(dy, dx)); atan2(0, 0) = 0
Atan2Norm(dy, dx) ==
    IF dx = 0 /\ dy = 0 THEN 0
    ELSE IF dx >= 0 /\ dy >= 0 THEN AtanFirst(dy, dx)
    ELSE IF dx < 0 /\ dy >= 0 THEN Pi - AtanFirst(dy, -dx)
    ELSE IF dx < 0 /\ dy < 0 THEN Pi + AtanFirst(-dy, -dx)
    ELSE AngleNormalize(TwoPi - AtanFirst(-dy, dx))

\* _angle_between(p_center, p)
AngleBetween(c, q) == Atan2Norm(q[2] - c[2], q[1] - c[1])

\* rounding division to the nearest integer, for b > 0
DivRound(a, b) == (2 * a + b) \div (2 * b)

\* ceiling division, for b > 0
DivCeil(a, b) == -((-a) \div b)

----------------------------------------------------------------------------
(* _find_free_slot and add_node_smart_from_selection                       *)

SlotBaseRadius == 160

SlotRing == 160

\* pad = math.radians(max(2.0, pad_deg)) with pad_deg = 8.0
SlotPad == 8000

SlotMaxRings == 6

GlobalMinDist == 140

\* MIN_CHORD_RATIO in hundredths (0.8)
MinChordRatioPct == 80

MinChordFloor == 80

\* 1e-3 rad, the floor of a gap width
MinGapWidth == 57

\* the step of angle_candidates, math.radians(10.0)
CandStep == 10000

\* graph.neighbors(n)
GraphNeighbors(n) == { m \in nodes : {n, m} \in edges /\ m # n }

\* _get_effective_root_node() when the current root is (or is not) a node
EffectiveRoot ==
    IF root \in nodes THEN root
    ELSE IF nodes = {} THEN NoName
    ELSE LET d2(n) == (npos[n][1] - conf.center[1]) * (npos[n][1] - conf.center[1])
                      + (npos[n][2] - conf.center[2]) * (npos[n][2] - conf.center[2])
         IN  CHOOSE n \in nodes : \A m \in nodes : d2(n) <= d2(m)

\* the existing nodes nearest the viewport centre
NearestNodes ==
    LET d2(n) == (npos[n][1] - conf.center[1]) * (npos[n][1] - conf.center[1])
                 + (npos[n][2] - conf.center[2]) * (npos[n][2] - conf.center[2])
    IN  { n \in nodes : \A m \in nodes : d2(n) <= d2(m) }

\* a plausible slip: without a usable root, the first node of the dict
EffectiveRootsAny == IF root \in nodes THEN { root } ELSE nodes

\* _get_effective_root_node() with at least one node: the root if it is an
\* existing node, else the nearest node (of several at one distance the one
\* the dict lists first, which may be any)
EffectiveRoots == IF root \in nodes THEN { root } ELSE NearestNodes

\* _rebuild_node_level_cache(): breadth-first levels from the effective root
RECURSIVE BfsLevels(_, _, _, _)
BfsLevels(frontier, visited, level, acc) ==
    IF frontier = {} THEN acc
    ELSE LET acc2 == [n \in DOMAIN acc \cup frontier |->
                         IF n \in frontier THEN level ELSE acc[n]]
             vis2 == visited \cup frontier
             next == (UNION { GraphNeighbors(n) : n \in frontier }) \ vis2
         IN  BfsLevels(next, vis2, level + 1, acc2)

NodeLevels ==
    IF nodes = {} THEN EmptyMap
    ELSE BfsLevels({EffectiveRoot}, {}, 0, EmptyMap)

\* _get_node_level(name): 0 for a node the search did not reach
NodeLevel(n) == Get(NodeLevels, n, 0)

\* the neighbour at a strictly smaller level (the graph is a forest: at most one)
ParentOf(anchor) ==
    LET ps == { nb \in GraphNeighbors(anchor) : NodeLevel(nb) < NodeLevel(anchor) }
    IN  IF ps = {} THEN NoName ELSE CHOOSE q \in ps : TRUE

\* pref_angle (lines 2265-2275)
PrefAngle(anchor) ==
    IF anchor \in DOMAIN lca THEN lca[anchor] + Golden
    ELSE IF ParentOf(anchor) # NoName
         THEN AngleBetween(npos[ParentOf(anchor)], npos[anchor])
         ELSE 0

\* a set of (name, angle) pairs as the ascending sequence of its angles
RECURSIVE SortAngles(_)
SortAngles(S) ==
    IF S = {} THEN <<>>
    ELSE LET m == CHOOSE x \in S : \A y \in S : x[2] <= y[2]
         IN  <<m[2]>> \o SortAngles(S \ {m})

\* _neighbors_angles(anchor_item)
NeighborsAngles(anchor) ==
    SortAngles({ <<nb, AngleBetween(npos[anchor], npos[nb])>> :
                    nb \in GraphNeighbors(anchor) })

\* the gap that follows angles[i] (the last one wraps around)
GapAfter(angles, i) ==
    IF i < Len(angles) THEN angles[i + 1] - angles[i]
    ELSE angles[1] + TwoPi - angles[i]

\* index of the first largest gap (the stable descending sort's head)
LargestGapIndex(angles) ==
    CHOOSE i \in 1 .. Len(angles) :
        /\ \A j \in 1 .. Len(angles) : GapAfter(angles, j) <= GapAfter(angles, i)
        /\ \A j \in 1 .. (i - 1) : GapAfter(angles, j) < GapAfter(angles, i)

\* the usable sector (a0, width) and the centre angle (lines 2278-2295)
SlotSector(anchor) ==
    LET angles == NeighborsAngles(anchor)
        pref == PrefAngle(anchor)
    IN  IF Len(angles) = 0
        THEN LET a0 == AngleNormalize(pref - HalfPi + SlotPad)
                 a1 == AngleNormalize(pref + HalfPi - SlotPad)
             IN  [a0 |-> a0, width |-> (a1 - a0) % TwoPi,
                  center |-> AngleNormalize(pref)]
        ELSE LET i == LargestGapIndex(angles)
                 gap == GapAfter(angles, i)
                 a == angles[i]
             IN  [a0 |-> (a + SlotPad) % TwoPi,
                  width |-> Max2(MinGapWidth, gap - 2 * SlotPad),
                  center |-> AngleNormalize(a + gap \div 2)]

\* min_chord = max(80.0, avg_diag * 1.2 * MIN_CHORD_RATIO)
SlotMinChord == Max2(MinChordFloor, (AvgNodeSize * 12 * MinChordRatioPct) \div 1000)

\* r0 (lines 2298-2306): base_radius, or the first ring at or beyond
\* need_r = (chord / 2) / sin(width / 2)
SlotR0(width) ==
    LET sn == Sin(Max2(1, width) \div 2)
        num == SlotMinChord * TrigScale - 2 * sn * SlotBaseRadius
    IN  IF sn <= 0 THEN SlotBaseRadius + 1000 * SlotRing
        ELSE IF num <= 0 THEN SlotBaseRadius
        ELSE SlotBaseRadius + DivCeil(num, 2 * sn * SlotRing) * SlotRing

\* cone_deg = max(60.0, 120.0 - 10.0 * len(angles)), as an angle
ConeLimit(nAngles) == Max2(60000, 120000 - 10000 * nAngles)

\* in_sector(x) (lines 2321-2331)
InSector(x, sec, pref, nAngles) ==
    LET hi == (sec.a0 + sec.width) % TwoPi
        ok == IF sec.width >= TwoPi - MinGapWidth THEN TRUE
              ELSE IF hi < sec.a0 THEN (x >= sec.a0 \/ x <= hi)
              ELSE (sec.a0 <= x /\ x <= hi)
        delta == Abs(((AngleNormalize(x - pref) + Pi) % TwoPi) - Pi)
    IN  ok /\ delta <= ConeLimit(nAngles)

\* angle_limit_deg = min(170.0, degrees(width) * 0.5), floored at 10 degrees
\* inside angle_candidates; the number of +/- steps it yields
CandSteps(width) == Max2(CandStep, Min2(170000, width \div 2)) \div CandStep

\* a plausible slip: the candidates go centre, -10, +10, -20, +20, ...
AngleCandidatesMinusFirst(center, width) ==
    [ i \in 1 .. (2 * CandSteps(width) + 1) |->
        IF i = 1 THEN center
        ELSE IF i % 2 = 0 THEN AngleNormalize(center - (i \div 2) * CandStep)
        ELSE AngleNormalize(center + (i \div 2) * CandStep) ]

\* angle_candidates(center_angle, limit_deg): centre, +10, -10, +20, -20, ...
AngleCandidates(center, width) ==
    [ i \in 1 .. (2 * CandSteps(width) + 1) |->
        IF i = 1 THEN center
        ELSE IF i % 2 = 0 THEN AngleNormalize(center + (i \div 2) * CandStep)
        ELSE AngleNormalize(center - (i \div 2) * CandStep) ]

\* the extreme values of hash(...) & 1023
HashSamples == { 0, 1023 }

\* jitter * (0.5 - h / 1023.0) in tenths of a pixel, h = hash(...) & 1023
Jitter10(ring_i, h) ==
    IF ring_i = 0 THEN 0
    ELSE DivRound(Min2(80, (SlotRing * 2) \div 10) * (1023 - 2 * h), 2046)

\* how far, in tenths of a pixel, a coordinate r cos(ang) or r sin(ang)
\* computed from the table can be from the one the program computes
SnapTol(r) == r \div 1000 + 1

\* one coordinate, in tenths of a pixel, snapped: round(v / step) * step,
\* for every value within tol of v10
SnapTenths(v10, tol) ==
    { RoundHalfEven(w, 10 * snap_step) * snap_step : w \in { v10 - tol, v10, v10 + tol } }

\* _snap(centre + r (cos ang, sin ang) + (jx, jy)): the grid points it can be
SnapPolar(c, r, ang, jx, jy) ==
    { <<x, y>> :
        x \in SnapTenths(10 * c[1] + DivRound(10 * r * Cos(ang), TrigScale) + jx, SnapTol(r)),
        y \in SnapTenths(10 * c[2] + DivRound(10 * r * Sin(ang), TrigScale) + jy, SnapTol(r)) }

\* the point add_node_smart_from_selection computes from (angle, radius)
PlacedPoints(c, r, ang) == SnapPolar(c, r, ang, 0, 0)

\* the points one candidate can be tested at: the two hashes are taken of
\* tuples holding the anchor's name, so their low bits vary from run to run
TestPoints(c, r, ang, ring_i) ==
    UNION { SnapPolar(c, r, ang, Jitter10(ring_i, hx), Jitter10(ring_i, hy)) :
              hx \in HashSamples, hy \in HashSamples }

\* the ring loop of _find_free_slot (lines 2334-2347), from candidate number
\* k of ring ring_i on: every <<ring, candidate, tested point>> it can accept,
\* and <<>> if it can run out of rings
RECURSIVE SlotSearch(_, _, _, _, _, _)
SlotSearch(c, r0, cands, inSec, ring_i, k) ==
    IF ring_i > SlotMaxRings THEN { <<>> }
    ELSE IF k > Len(inSec) THEN SlotSearch(c, r0, cands, inSec, ring_i + 1, 1)
    ELSE LET ang == cands[inSec[k]]
             pts == TestPoints(c, r0 + ring_i * SlotRing, ang, ring_i)
             free == { p \in pts : IsPosFree(p, GlobalMinDist) }
         IN  { <<ring_i, inSec[k], p>> : p \in free }
               \cup (IF free = pts THEN {}
                     ELSE SlotSearch(c, r0, cands, inSec, ring_i, k + 1))

\* the ascending sequence of a set of candidate numbers
RECURSIVE SeqOfSet(_)
SeqOfSet(S) ==
    IF S = {} THEN <<>>
    ELSE LET m == CHOOSE x \in S : \A y \in S : x <= y
         IN  <<m>> \o SeqOfSet(S \ {m})

\* a write that records the angle on the accepting return only
RecordChildAngleAcceptedOnly(attrs, anchor, ang, accepted) ==
    IF accepted THEN Put(attrs, anchor, ang) ELSE attrs

\* the write both returns of _find_free_slot make before they return:
\* graph.nodes[anchor]['last_child_angle'] = float(ang) on the accepting
\* path, float(ang_center) on the fallback
RecordChildAngle(attrs, anchor, ang, accepted) == Put(attrs, anchor, ang)

\* what _find_free_slot can read and write of the scene: the nodes'
\* last_child_angle attributes, their positions and the index
SlotScene(attrs) == [lca |-> attrs, npos |-> npos, grid |-> grid, radius |-> radius]

\* On ring 0 the jitter is 0.0 and the point tested is computed from the
\* very floats the caller uses, so the two snapped points are one.
\* _find_free_slot(anchor): what it can return (ang, r) and what it did on
\* the way (the point it tested, the sector, the preferred angle), together
\* with the point add_node_smart_from_selection places the node at, the
\* scene at the call (scene0) and the scene at the return (scene1)
FindFreeSlot(anchor) ==
    LET c == npos[anchor]
        nA == Len(NeighborsAngles(anchor))
        pref == PrefAngle(anchor)
        sec == SlotSector(anchor)
        r0 == SlotR0(sec.width)
        cands == AngleCandidates(sec.center, sec.width)
        inSec == SeqOfSet({ i \in 1 .. Len(cands) : InSector(cands[i], sec, pref, nA) })
        ang(w) == IF w = <<>> THEN sec.center ELSE cands[w[2]]
        r(w) == r0 + (IF w = <<>> THEN 1 ELSE w[1]) * SlotRing
        result(w, p) ==
            [anchor |-> anchor, accepted |-> w # <<>>, ang |-> ang(w), r |-> r(w),
             ring_i |-> IF w = <<>> THEN SlotMaxRings ELSE w[1], r0 |-> r0,
             pref |-> pref, nA |-> nA, sec |-> sec,
             tested |-> IF w = <<>> THEN <<>> ELSE w[3],
             cand |-> IF w = <<>> THEN 0 ELSE w[2],
             placed |-> p,
             r_new |-> RNew(GlobalMinDist), before |-> DOMAIN radius,
             scene0 |-> SlotScene(lca),
             scene1 |-> SlotScene(RecordChildAngle(lca, anchor, ang(w), w # <<>>))]
        placed(w) == IF w # <<>> /\ w[1] = 0 THEN { w[3] }
                     ELSE PlacedPoints(c, r(w), ang(w))
    IN  UNION { { result(w, p) : p \in placed(w) } :
                w \in SlotSearch(c, r0, cands, inSec, 0, 1) }

----------------------------------------------------------------------------
(* Specification SpecSlot: scenes the editor reaches by creating nodes,    *)
(* dragging them to grid points, disconnecting and deleting (the root n1   *)
(* at the origin, one more node somewhere or none, registered in the index *)
(* as _create_node_at and _on_node_moved leave them), then smart insertion *)
(* of children and disconnection.                                          *)

SlotPoints == { <<400, 0>>, <<160, 0>>, <<-160, 80>> }

LcaSamples == { 0, 90000 }

\* a root with three children around it, one gap of about 153 degrees
StarPoints == [s1 |-> <<160, 0>>, s2 |-> <<-160, 80>>, s3 |-> <<-80, -240>>]

\* the index as _create_node_at / _on_node_moved leave it for nodes ns at
\* positions ps with sizes sz
RECURSIVE IndexOf(_, _, _, _)
IndexOf(todo, ns, ps, sz) ==
    IF todo = {} THEN EmptyMap
    ELSE LET n == CHOOSE n \in todo : TRUE
             rest == CHOOSE g \in { IndexOf(todo \ {n}, ns, ps, sz) } : TRUE
         IN  InsertGrid(rest, n, ps[n][1], ps[n][2], NodeRadiusPxOf(ns, sz, n))

InitSlot ==
    /\ cell = ClampCell(DefaultCell)
    /\ snap_step = SnapStepDefault /\ nset = 0
    /\ regpos = EmptyMap /\ hits = {} /\ query = <<>> /\ irregular = 0 /\ call = <<>>
    /\ log = <<>> /\ slot = <<>>
    /\ conf = DefaultConf /\ lay = <<>> /\ ringplan = <<>>
    /\ undo_stack = <<>> /\ redo_stack = <<>>
    /\ \/ \E others \in SUBSET {"n2"} :
             /\ nodes = {"n1"} \cup others
             /\ \E ps \in [others -> SlotPoints] :
                   npos = [n \in nodes |-> IF n = "n1" THEN <<0, 0>> ELSE ps[n]]
             /\ nsize \in [nodes -> NodeSizes]
             /\ edges \in SUBSET { {"n1", n} : n \in others }
             /\ root \in nodes
       \/ /\ nodes = {"n1"} \cup DOMAIN StarPoints
          /\ npos = [n \in nodes |-> IF n = "n1" THEN <<0, 0>> ELSE StarPoints[n]]
          /\ nsize = [n \in nodes |-> <<80, 60>>]
          /\ edges = { {"n1", n} : n \in DOMAIN StarPoints }
          /\ root = "n1"
    /\ pos_cache = npos
    /\ radius = [n \in nodes |-> NodeRadiusPxOf(nodes, nsize, n)]
    /\ grid = IndexOf(nodes, nodes, npos, nsize)
    /\ \E withLca \in SUBSET {"n1"} : lca \in [withLca -> LcaSamples]

\* add_node_smart_from_selection(): _find_free_slot on the anchor (the
\* selected node), then _create_node_at at the snapped point, then the edge
AddNodeSmart ==
    /\ SlotNames \ nodes # {}
    /\ \E anchor \in nodes :
        \E res \in FindFreeSlot(anchor), sz \in NodeSizes :
        LET pos == res.placed
            name == CHOOSE n \in SlotNames \ nodes :
                       \A m \in SlotNames \ nodes : NameIndex(n) <= NameIndex(m)
            r == NodeRadiusPxOf(nodes \cup {name}, Put(nsize, name, sz), name)
        IN  /\ slot' = res
            /\ lca' = res.scene1.lca
            /\ nodes' = nodes \cup {name}
            /\ npos' = Put(npos, name, pos)
            /\ nsize' = Put(nsize, name, sz)
            /\ pos_cache' = Put(pos_cache, name, pos)
            /\ radius' = Put(radius, name, r)
            /\ grid' = InsertGrid(grid, name, pos[1], pos[2], r)
            /\ edges' = edges \cup { {anchor, name} }
            /\ log' = <<"query", "pos", "insert">>
            /\ hits' = {} /\ query' = <<>>
            /\ UNCHANGED <<cell, regpos, irregular, call, snap_step, nset, root, conf, lay, ringplan, histVars>>

\* disconnect_nodes(): graph.remove_edge(src, target)
DisconnectNodes ==
    \E e \in edges :
        /\ edges' = edges \ {e}
        /\ log' = <<>>
        /\ UNCHANGED <<shVars, nodes, npos, nsize, pos_cache, snap_step, nset,
                       lca, root, slot, conf, lay, ringplan, histVars>>

NextSlot == AddNodeSmart \/ DisconnectNodes

SpecSlot == InitSlot /\ [][NextSlot]_vars

----------------------------------------------------------------------------
(* arrange_radial and arrange_tree.  In the scenes of SpecLayout a node's  *)
(* name is its path from the root (a sequence of child numbers), so that   *)
(* the name order of siblings is the order of their last components.       *)

\* math.radians(self.RADIAL_PAD_ARC)
RadialPadArc == 6000

\* math.radians(self.RADIAL_MAX_CONE)
RadialMaxCone == 120000

\* self.MAX_EXTRA_STRETCH in hundredths (3.0)
MaxExtraStretchPct == 300

MaxRingsPerLevel == 4

\* asin(0.999999)
AsinCap == 89919

\* the factor 1.5 of MIN_CHORD, in tenths
RadialChordFactor10 == 15

\* the factor 0.9 of y_spacing, in tenths
YSpacingFactor10 == 9

\* s.lower() of a name, the key children are sorted by: a name is a path and
\* its key the size of its last element, so that <<1>> and <<-1>> are two
\* names that differ in letter case only
NameKey(n) == IF n = <<>> THEN 0 ELSE Abs(n[Len(n)])

\* the names of S in the order rank
RECURSIVE SortRank(_, _)
SortRank(S, rank) ==
    IF S = {} THEN <<>>
    ELSE LET m == CHOOSE x \in S : \A y \in S : rank[x] <= rank[y]
         IN  <<m>> \o SortRank(S \ {m}, rank)

\* list.sort(key=lambda s: s.lower()) of the names S met in the order rank:
\* by key, names of one key in the order they were met (the sort is stable)
RECURSIVE SortNames(_, _)
SortNames(S, rank) ==
    IF S = {} THEN <<>>
    ELSE LET m == CHOOSE x \in S : \A y \in S :
                      \/ NameKey(x) < NameKey(y)
                      \/ NameKey(x) = NameKey(y) /\ rank[x] <= rank[y]
         IN  <<m>> \o SortNames(S \ {m}, rank)

\* a number for every path, different paths having different numbers
RECURSIVE PathCode(_)
PathCode(n) ==
    IF n = <<>> THEN 0
    ELSE n[Len(n)] + 11 + 32 * PathCode(SubSeq(n, 1, Len(n) - 1))

\* the orders in which the graph lists a node's neighbours.  networkx keeps
\* them in the order the edges were connected, which is not part of the
\* state: two orders are taken, one ranking of the nodes and its reverse.
AdjRanks == { [n \in nodes |-> PathCode(n)], [n \in nodes |-> -PathCode(n)] }

\* nx.bfs_tree(graph, rt): the parent of every node reached, the neighbours of
\* a node visited in the order rank
RECURSIVE BfsParents(_, _, _, _)
BfsParents(queue, visited, par, rank) ==
    IF queue = <<>> THEN par
    ELSE LET u == Head(queue)
             fresh == GraphNeighbors(u) \ visited
         IN  BfsParents(Tail(queue) \o SortRank(fresh, rank), visited \cup fresh,
                        [v \in fresh |-> u] @@ par, rank)

\* a plausible slip: a node's children are all its neighbours one level
\* further from the root (a node on a cycle is then a child of two nodes)
ChildrenMapByLevel(rt, rank) ==
    CHOOSE f \in { [n \in DOMAIN lv |->
                      SortNames({ m \in GraphNeighbors(n) : lv[m] = lv[n] + 1 }, rank)] :
                   lv \in { BfsLevels({rt}, {}, 0, EmptyMap) } } : TRUE

\* children of nx.bfs_tree(graph, rt), each list sorted by name
ChildrenMap(rt, rank) ==
    CHOOSE f \in { [n \in DOMAIN par \cup {rt} |->
                      SortNames({ m \in DOMAIN par : par[m] = n }, rank)] :
                   par \in { BfsParents(<<rt>>, {rt}, EmptyMap, rank) } } : TRUE

\* clamp_sector_to_cone(a0, a1, center_ang, cone_width): the sectors it can
\* return.  The test e <= s is made on floating-point sums; when the two are
\* the same angle their rounding errors decide it, either way.
ClampSectorToCone(a0, a1, center_ang, cone_width) ==
    LET half == cone_width \div 2
        s == Max2(a0, center_ang - half)
        e == Min2(a1, center_ang + half)
        mid == (a0 + a1) \div 2
        q == Min2(cone_width, a1 - a0) \div 4
    IN  (IF e <= s THEN { <<mid - q, mid + q>> } ELSE {})
            \cup (IF e >= s THEN { <<s, e>> } ELSE {})

\* the largest angle in [lo, hi] whose sine is at most num / den
RECURSIVE AsinQ(_, _, _, _)
AsinQ(num, den, lo, hi) ==
    IF hi - lo <= 1 THEN lo
    ELSE CHOOSE r \in { IF Sin(mid) * den <= num * TrigScale
                        THEN AsinQ(num, den, mid, hi)
                        ELSE AsinQ(num, den, lo, mid) :
                        mid \in { (lo + hi) \div 2 } } : TRUE

\* math.asin(min(0.999999, num / den)) for num >= 0, den > 0
Asin(num, den) ==
    IF num >= den THEN AsinCap ELSE Min2(AsinCap, AsinQ(num, den, 0, HalfPi))

\* MIN_CHORD = avg_diagonal * 1.5 * MIN_CHORD_RATIO, in tenths of a pixel
RadialMinChord10 == (AvgNodeSize * RadialChordFactor10 * MinChordRatioPct) \div 100

\* delta_required(rad)
DeltaRequired(rad) ==
    CHOOSE d \in { 2 * Asin(chord, 20 * rad) : chord \in { RadialMinChord10 } } : TRUE

\* int(usable_width / delta_required(rad)) + 1
RingCap(usable, rad) == usable \div DeltaRequired(rad) + 1

\* the two stretch loops: extra grows by STRETCH_STEP while the capacity is
\* below want and extra is below MAX_EXTRA_STRETCH; what they end with when
\* STRETCH_STEP is positive
RECURSIVE StretchLoop(_, _, _, _, _)
StretchLoop(usable, rad, want, extra, cap) ==
    IF cap < want /\ extra < (MaxExtraStretchPct * conf.target_edge) \div 100
    THEN StretchLoop(usable, rad, want, extra + conf.stretch_step,
                     RingCap(usable, rad + extra + conf.stretch_step))
    ELSE <<extra, cap>>

\* the ring-filling loop (lines 2970-2979)
RECURSIVE RingLoop(_, _, _, _, _)
RingLoop(usable, m, radii, counts, total) ==
    IF total < m /\ Len(radii) < MaxRingsPerLevel
    THEN LET cur_r == radii[Len(radii)]
             cap0 == RingCap(usable, cur_r)
             cap == IF cap0 < 2 /\ m - total > 1 THEN 2 ELSE cap0
             put == Min2(cap, m - total)
         IN  RingLoop(usable, m,
                      IF total + put < m THEN Append(radii, cur_r + conf.target_edge)
                                         ELSE radii,
                      Append(counts, put), total + put)
    ELSE [radii |-> radii, counts |-> counts, total |-> total]

\* a plausible slip: the first ring of a level is one ring step from the parent
RBaseFromParent(depth, r_parent) == r_parent + conf.target_edge

\* r_base = max(r_parent + RING, BASE_R + RING * (depth + 1))
RBase(depth, r_parent) ==
    Max2(r_parent + conf.target_edge, conf.base_r + conf.target_edge * (depth + 1))

\* ring_radii and counts for m children (lines 2943-2991)
RingPlan(m, usable, r_base) ==
    IF m = 1 THEN [radii |-> <<r_base>>, counts |-> <<1>>]
    ELSE IF RingCap(usable, r_base) >= m
    THEN [radii |-> <<r_base>>, counts |-> <<m>>]
    ELSE LET st == StretchLoop(usable, r_base, m, 0, RingCap(usable, r_base))
         IN  IF st[2] >= m
             THEN [radii |-> <<r_base + st[1]>>, counts |-> <<m>>]
             ELSE LET lp == RingLoop(usable, m, <<r_base>>, <<>>, 0)
                  IN  IF lp.total >= m
                      THEN [radii |-> lp.radii, counts |-> lp.counts]
                      ELSE LET need_more == m - lp.total
                               k == Len(lp.radii)
                               last_r == lp.radii[k]
                               st2 == StretchLoop(usable, last_r, need_more, 0,
                                                  RingCap(usable, last_r))
                           IN  [radii |-> [lp.radii EXCEPT ![k] = last_r + st2[1]],
                                counts |-> Append(lp.counts, need_more)]

\* ring_of_idx[i - 1]: the ring (numbered from 1) of the i-th child
RingOfIdx(counts, i) ==
    CHOOSE k \in 1 .. Len(counts) :
        /\ SumOver([j \in 1 .. Len(counts) |-> <<counts[j]>>], 1 .. k, 1) >= i
        /\ SumOver([j \in 1 .. Len(counts) |-> <<counts[j]>>], 1 .. (k - 1), 1) < i

\* the union of a sequence of dicts with disjoint keys
RECURSIVE MergeSeq(_)
MergeSeq(fs) == IF fs = <<>> THEN EmptyMap ELSE Head(fs) @@ MergeSeq(Tail(fs))

\* every union of one dict from each set of a sequence of sets of dicts
RECURSIVE MergeAll(_)
MergeAll(ss) ==
    IF ss = <<>> THEN { EmptyMap }
    ELSE { f @@ g : f \in Head(ss), g \in MergeAll(Tail(ss)) }

\* use_a0, use_a1 of assign (lines 2932-2937), every outcome
UseSectors(depth, a0, a1, dir) ==
    LET raw0 == a0 + RadialPadArc
        raw1 == a1 - RadialPadArc
    IN  IF depth = 0 THEN { <<raw0, raw1>> }
        ELSE ClampSectorToCone(raw0, raw1, dir, Min2(RadialMaxCone, raw1 - raw0))

\* what assign enters for the children ch of n once use_a0, use_a1 and the
\* rings are known: angle, ring radius, forwarded sector, parent, depth, and
\* the ring index (from 1) with the length of ring_radii
OwnChildren(ch, n, depth, use, plan) ==
    LET m == Len(ch)
        usable == Max2(0, use[2] - use[1])
        angle(i) == IF m = 1 THEN (use[1] + use[2]) \div 2
                    ELSE use[1] + ((i - 1) * usable) \div (m - 1)
        mid(i) == (angle(i) + angle(i + 1)) \div 2
        lo(i) == IF m = 1 \/ i = 1 THEN use[1] ELSE mid(i - 1) + RadialPadArc \div 2
        hi(i) == IF m = 1 \/ i = m THEN use[2] ELSE mid(i) - RadialPadArc \div 2
    IN  Fix([c \in { ch[i] : i \in 1 .. m } |->
               LET i == CHOOSE j \in 1 .. m : ch[j] = c
               IN  [ang |-> angle(i),
                    r |-> plan.radii[RingOfIdx(plan.counts, i)],
                    a0 |-> lo(i), a1 |-> hi(i),
                    par |-> n, depth |-> depth + 1,
                    ring |-> RingOfIdx(plan.counts, i), rings |-> Len(plan.radii)]])

\* the outcomes of assign for the children of n alone
OwnOutcomes(ch, n, depth, a0, a1, dir, r_parent) ==
    UNION { { OwnChildren(ch, n, depth, use, plan) :
                plan \in { RingPlan(Len(ch), Max2(0, use[2] - use[1]),
                                    RBase(depth, r_parent)) } } :
            use \in UseSectors(depth, a0, a1, dir) }

\* assign(n, depth, a0, a1, r_parent) with dir = angle_of[n]: every outcome,
\* each giving for every descendant of n its angle, ring radius, the sector
\* forwarded to it, its parent and its depth
RECURSIVE Assign(_, _, _, _, _, _, _)
Assign(kids, n, depth, a0, a1, dir, r_parent) ==
    IF Len(kids[n]) = 0 THEN { EmptyMap }
    ELSE UNION {
           { own @@ g :
               g \in MergeAll([i \in 1 .. Len(kids[n]) |->
                                 Assign(kids, kids[n][i], depth + 1,
                                        own[kids[n][i]].a0, own[kids[n][i]].a1,
                                        own[kids[n][i]].ang, own[kids[n][i]].r)]) } :
           own \in OwnOutcomes(kids[n], n, depth, a0, a1, dir, r_parent) }

\* _set_node_pos for every node of a position map
RECURSIVE SetAllPos(_, _, _)
SetAllPos(st, todo, target) ==
    IF todo = {} THEN st
    ELSE LET n == CHOOSE x \in todo : TRUE
             s1 == CHOOSE v \in { SetNodePos(st, n, target[n]) } : TRUE
         IN  SetAllPos(s1, todo \ {n}, target)

\* the scale x coordinates are kept at while means of means are taken
XScale == 32 * 45

\* a plausible slip: order advances once per subtree, not once per leaf
LeafCountPerChild(kids, n) == 1

\* the number of leaves dfs(n) passes, i.e. by how much it advances order
RECURSIVE LeafCount(_, _)
LeafCount(kids, n) ==
    IF Len(kids[n]) = 0 THEN 1
    ELSE SumOver([i \in 1 .. Len(kids[n]) |-> <<LeafCount(kids, kids[n][i])>>],
                 1 .. Len(kids[n]), 1)

\* dfs(n, depth) of arrange_tree entered with the leaf counter at order: the
\* positions it enters (x at XScale, y in tenths)
RECURSIVE TreeDfs(_, _, _, _)
TreeDfs(kids, n, depth, order) ==
    LET ch == kids[n]
        m == Len(ch)
        y == depth * conf.target_edge * YSpacingFactor10
    IN  IF m = 0
        THEN (n :> <<order * conf.target_edge * XScale, y>>)
        ELSE LET before(i) == SumOver([j \in 1 .. m |-> <<LeafCount(kids, ch[j])>>],
                                      1 .. (i - 1), 1)
                 sub == Fix(MergeSeq([i \in 1 .. m |->
                                        TreeDfs(kids, ch[i], depth + 1,
                                                order + before(i))]))
                 sum == SumOver(sub, { ch[i] : i \in 1 .. m }, 1)
             IN  (n :> <<sum \div m, y>>) @@ sub

\* min and max of a coordinate of a position map
MinOf(f, i) == CHOOSE v \in { f[n][i] : n \in DOMAIN f } :
                  \A n \in DOMAIN f : v <= f[n][i]

MaxOf(f, i) == CHOOSE v \in { f[n][i] : n \in DOMAIN f } :
                  \A n \in DOMAIN f : v >= f[n][i]

\* _snap(QPointF(center.x() + (x - cx), center.y() + (y - cy))) for every
\* entry of pos
TreeTargets(pos) ==
    LET cx2 == MinOf(pos, 1) + MaxOf(pos, 1)
        cy2 == MinOf(pos, 2) + MaxOf(pos, 2)
    IN  [n \in DOMAIN pos |->
          << RoundHalfEven(2 * XScale * conf.center[1] + 2 * pos[n][1] - cx2,
                           2 * XScale * snap_step) * snap_step,
             RoundHalfEven(20 * conf.center[2] + 2 * pos[n][2] - cy2,
                           20 * snap_step) * snap_step >>]

----------------------------------------------------------------------------
(* Specification SpecLayout: a tree of nodes is on the canvas (created and *)
(* connected node by node, every node dragged to a grid point), the        *)
(* settings and the viewport centre are as loaded; the user runs either    *)
(* layout, any number of times.                                            *)

MaxDepth == 3

\* <<number of children, which of them has children in turn>> per level
Fans == { <<1, 1>>, <<2, 1>>, <<2, 2>> }

\* a root with 8 children; fans of 3; two trees whose fourth level receives a
\* sector narrower than twice the padding
ExtraShapes ==
    { << <<8, 1>> >>,
      << <<3, 1>>, <<3, 2>> >>,
      << <<2, 1>>, <<2, 1>>, <<1, 1>>, <<1, 1>> >>,
      << <<2, 1>>, <<2, 1>>, <<1, 1>>, <<2, 1>> >> }

Shapes == UNION { [1 .. k -> Fans] : k \in 0 .. MaxDepth } \cup ExtraShapes

Spine(shape, d) == [k \in 1 .. d |-> shape[k][2]]

ShapeNodes(shape) ==
    { <<>> } \cup UNION { { Append(Spine(shape, d - 1), i) : i \in 1 .. shape[d][1] } :
                            d \in 1 .. Len(shape) }

ShapeEdges(shape) ==
    { { SubSeq(q, 1, Len(q) - 1), q } : q \in ShapeNodes(shape) \ { <<>> } }

\* a node no edge joins to the tree
LooseNode == <<0>>

\* TARGET_EDGE, RADIAL_BASE_R, SNAP_STEP, the size of every node, the centre
LayoutScenes ==
    { [te |-> 180, base |-> 80,  snap |-> 40, size |-> <<80, 60>>,   center |-> <<0, 0>>],
      [te |-> 180, base |-> 80,  snap |-> 40, size |-> <<160, 120>>, center |-> <<10, 30>>],
      [te |-> 160, base |-> 160, snap |-> 40, size |-> <<160, 120>>, center |-> <<0, 0>>],
      [te |-> 160, base |-> 160, snap |-> 40, size |-> <<200, 150>>, center |-> <<0, 0>>],
      [te |-> 160, base |-> 160, snap |-> 40, size |-> <<560, 420>>, center |-> <<0, 0>>],
      [te |-> 120, base |-> 40,  snap |-> 80, size |-> <<80, 60>>,   center |-> <<60, 100>>],
      [te |-> 40,  base |-> 80,  snap |-> 40, size |-> <<80, 60>>,   center |-> <<0, 0>>] }

\* a second child of the root, its name the first child's in other letter case
TwinNode == <<-1>>

\* a name no node has (the root's, after the root was deleted)
GhostNode == <<-9>>

\* Python's None where names are paths
NoPath == <<-8>>

\* what a scene has beyond its tree: more nodes, more edges, another root
SceneOption(xn, xe, rt) == [nodes |-> xn, edges |-> xe, root |-> rt]

\* the tree alone; for a tree of at most two levels also: a loose node, no
\* root or a deleted root, the twin; for a tree of three levels whose root
\* has two children or more: an edge that closes a cycle, from the root's
\* first child off the spine to the spine's first grandchild
SceneOptions(shape) ==
    { SceneOption({}, {}, <<>>) }
    \cup (IF Len(shape) <= 1
          THEN { SceneOption({LooseNode}, {}, <<>>),
                 SceneOption({}, {}, NoPath),
                 SceneOption({LooseNode}, {}, NoPath),
                 SceneOption({}, {}, GhostNode) }
          ELSE {})
    \cup (IF Len(shape) = 1
          THEN { SceneOption({TwinNode}, {{<<>>, TwinNode}}, <<>>) }
          ELSE {})
    \cup (IF Len(shape) = 2 /\ shape[1][1] >= 2
          THEN { SceneOption({}, {{ <<IF shape[1][2] = 1 THEN 2 ELSE 1>>,
                                    <<shape[1][2], 1>> }}, <<>>) }
          ELSE {})

InitLayout ==
    /\ cell = ClampCell(DefaultCell)
    /\ regpos = EmptyMap /\ hits = {} /\ query = <<>> /\ irregular = 0 /\ call = <<>>
    /\ log = <<>> /\ slot = <<>> /\ lay = <<>> /\ ringplan = <<>>
    /\ undo_stack = <<>> /\ redo_stack = <<>> /\ lca = EmptyMap
    /\ \E shape \in Shapes, sc \in LayoutScenes :
       \E opt \in SceneOptions(shape) :
          /\ nodes = ShapeNodes(shape) \cup opt.nodes
          /\ edges = ShapeEdges(shape) \cup opt.edges
          /\ root = opt.root
          /\ snap_step = sc.snap /\ nset = 0
          /\ conf = [DefaultConf EXCEPT !.target_edge = sc.te, !.base_r = sc.base,
                                       !.center = sc.center]
          /\ nsize = Fix([n \in nodes |-> sc.size])
          /\ npos = Fix([n \in nodes |->
                           Snap(sc.snap, <<sc.snap * Len(n),
                                           IF n = <<>> THEN 0 ELSE sc.snap * n[Len(n)]>>)])
    /\ pos_cache = npos
    /\ radius = Fix([n \in nodes |-> NodeRadiusPxOf(nodes, nsize, n)])
    /\ grid = IndexOf(nodes, nodes, npos, nsize)

\* the targets of arrange_radial for the nodes todo: each at
\* _snap(center + r (cos ang, sin ang)) (lines 3006-3012), every outcome
RECURSIVE RadialTargets(_, _)
RadialTargets(todo, info) ==
    IF todo = {} THEN { EmptyMap }
    ELSE LET n == CHOOSE x \in todo : TRUE
         IN  { (n :> p) @@ g :
                 p \in PlacedPoints(conf.center, info[n].r, info[n].ang),
                 g \in RadialTargets(todo \ {n}, info) }

\* arrange_radial(root) as the toolbar button calls it: root is the button's
\* "checked" flag, not a node, and the effective root is used; all of it but
\* the push_history that ends it
ArrangeRadialScene ==
    /\ nodes # {}
    /\ \E rt \in EffectiveRoots :
       \E kids \in { Fix(ChildrenMap(rt, rank)) : rank \in AdjRanks } :
       \E info \in Assign(kids, rt, 0, 0, TwoPi, 0, 0) :
       \E target \in { (rt :> Snap(snap_step, conf.center)) @@ g :
                          g \in RadialTargets(DOMAIN info, info) } :
       \E st \in { SetAllPos(Cur, DOMAIN target, target) } :
          /\ Install(st)
          /\ root' = rt
          /\ lay' = [kind |-> "radial", root |-> rt, info |-> info, pos |-> target,
                     kids |-> kids, root0 |-> root]
    /\ UNCHANGED <<cell, regpos, hits, query, irregular, call, nodes, nsize, snap_step, nset,
                   edges, lca, slot, conf, ringplan>>

\* arrange_radial where the history is not followed
ArrangeRadial == ArrangeRadialScene /\ UNCHANGED histVars

\* arrange_tree(root) as the toolbar button calls it; all of it but the
\* push_history that ends it
ArrangeTreeScene ==
    /\ nodes # {}
    /\ \E rt \in EffectiveRoots :
       \E kids \in { Fix(ChildrenMap(rt, rank)) : rank \in AdjRanks } :
       \E pos \in { TreeDfs(kids, rt, 0, 0) } :
       \E target \in { Fix(TreeTargets(pos)) } :
       \E st \in { SetAllPos(Cur, DOMAIN target, target) } :
          /\ Install(st)
          /\ root' = rt
          /\ lay' = [kind |-> "tree", root |-> rt, info |-> pos, pos |-> target,
                     kids |-> kids, root0 |-> root]
    /\ UNCHANGED <<cell, regpos, hits, query, irregular, call, nodes, nsize, snap_step, nset,
                   edges, lca, slot, conf, ringplan>>

\* arrange_tree where the history is not followed
ArrangeTree == ArrangeTreeScene /\ UNCHANGED histVars

NextLayout == ArrangeRadial \/ ArrangeTree

SpecLayout == InitLayout /\ [][NextLayout]_vars

----------------------------------------------------------------------------
(* Specification SpecRings: arrange_radial with the ring planning of       *)
(* assign() for the root taken one loop iteration at a time, and           *)
(* arrange_tree, on a root with up to MaxFan children, under the values    *)
(* load_all_settings can leave in RADIAL_STRETCH_STEP and TARGET_EDGE: it  *)
(* takes them from the settings file as they are.  The interpreter runs a  *)
(* loop body whenever the loop's condition holds, which is the weak        *)
(* fairness of the steps.                                                  *)

MaxFan == 10

StretchStepFileValues == { 0, 10, RadialStretchStep }

TargetEdgeFileValues == { -180, 0, 120, TargetEdgeDefault }

\* a short label and a long one
RingSizes == { <<160, 120>>, <<800, 40>> }

InitRings ==
    /\ cell = ClampCell(DefaultCell)
    /\ regpos = EmptyMap /\ hits = {} /\ query = <<>> /\ irregular = 0 /\ call = <<>>
    /\ log = <<>> /\ slot = <<>> /\ lay = <<>> /\ ringplan = <<>>
    /\ undo_stack = <<>> /\ redo_stack = <<>> /\ lca = EmptyMap
    /\ snap_step = SnapStepDefault /\ nset = 0
    /\ \E m \in 1 .. MaxFan, sz \in RingSizes :
          /\ nodes = { <<>> } \cup { <<i>> : i \in 1 .. m }
          /\ edges = { { <<>>, <<i>> } : i \in 1 .. m }
          /\ nsize = Fix([n \in nodes |-> sz])
    /\ root = <<>>
    /\ \E step \in StretchStepFileValues, te \in TargetEdgeFileValues :
          conf = [DefaultConf EXCEPT !.stretch_step = step, !.target_edge = te]
    /\ npos = Fix([n \in nodes |->
                     Snap(snap_step, <<snap_step * Len(n),
                                       IF n = <<>> THEN 0 ELSE snap_step * n[Len(n)]>>)])
    /\ pos_cache = npos
    /\ radius = Fix([n \in nodes |-> NodeRadiusPxOf(nodes, nsize, n)])
    /\ grid = IndexOf(nodes, nodes, npos, nsize)

\* MAX_EXTRA_STRETCH = self.MAX_EXTRA_STRETCH * self.TARGET_EDGE
MaxExtraStretch == (MaxExtraStretchPct * conf.target_edge) \div 100

\* the locals of assign() at a point pc of its ring planning; iter is
\* history, the number of loop iterations run so far counted modulo 2
RingLocals(pc, m, usable, r_base, extra, cap, want, radii, counts, total) ==
    [pc |-> pc, m |-> m, usable |-> usable, r_base |-> r_base, extra |-> extra,
     cap |-> cap, want |-> want, radii |-> radii, counts |-> counts, total |-> total,
     iter |-> 0]

\* arrange_radial() from its start to the first stretch loop of
\* assign(root, 0, 0.0, twopi, 0.0), or past the planning when the first
\* ring holds all the children (lines 2871-2956)
RadialEnter ==
    /\ ringplan = <<>> /\ lay = <<>>
    /\ \E rt \in EffectiveRoots :
       \E kids \in { Fix(ChildrenMap(rt, rank)) : rank \in AdjRanks } :
       LET m == Len(kids[rt])
           usable == Max2(0, (TwoPi - RadialPadArc) - RadialPadArc)
           r_base == RBase(0, 0)
           cap_base == RingCap(usable, r_base)
       IN  ringplan' =
             IF m = 1
             THEN RingLocals("done", m, usable, r_base, 0, 0, 0, <<r_base>>, <<1>>, 1)
             ELSE IF cap_base >= m
             THEN RingLocals("done", m, usable, r_base, 0, cap_base, 0, <<r_base>>, <<m>>, m)
             ELSE RingLocals("stretch", m, usable, r_base, 0, cap_base, m, <<r_base>>, <<>>, 0)
    /\ UNCHANGED <<shVars, appVars, edges, lca, root, slot, conf, lay, histVars>>

\* one iteration of "while stretched_cap < m and extra < MAX_EXTRA_STRETCH"
\* (lines 2959-2962)
StretchStep ==
    /\ ringplan # <<>> /\ ringplan.pc = "stretch"
    /\ ringplan.cap < ringplan.m /\ ringplan.extra < MaxExtraStretch
    /\ ringplan' = [ringplan EXCEPT
                      !.iter = 1 - @,
                      !.extra = @ + conf.stretch_step,
                      !.cap = RingCap(ringplan.usable,
                                      ringplan.r_base + ringplan.extra + conf.stretch_step)]
    /\ UNCHANGED <<shVars, appVars, edges, lca, root, slot, conf, lay, histVars>>

\* the stretch loop left: one stretched ring, or on to the ring loop
\* (lines 2963-2969)
StretchExit ==
    /\ ringplan # <<>> /\ ringplan.pc = "stretch"
    /\ ~(ringplan.cap < ringplan.m /\ ringplan.extra < MaxExtraStretch)
    /\ ringplan' =
          IF ringplan.cap >= ringplan.m
          THEN [ringplan EXCEPT !.pc = "done", !.radii = <<ringplan.r_base + ringplan.extra>>,
                                !.counts = <<ringplan.m>>, !.total = ringplan.m]
          ELSE [ringplan EXCEPT !.pc = "rings", !.radii = <<ringplan.r_base>>,
                                !.counts = <<>>, !.total = 0]
    /\ UNCHANGED <<shVars, appVars, edges, lca, root, slot, conf, lay, histVars>>

\* one iteration of "while total < m and len(ring_radii) < MAX_RINGS_PER_LEVEL"
\* (lines 2970-2979)
RingStep ==
    /\ ringplan # <<>> /\ ringplan.pc = "rings"
    /\ ringplan.total < ringplan.m /\ Len(ringplan.radii) < MaxRingsPerLevel
    /\ LET cur_r == ringplan.radii[Len(ringplan.radii)]
           cap0 == RingCap(ringplan.usable, cur_r)
           cap == IF cap0 < 2 /\ ringplan.m - ringplan.total > 1 THEN 2 ELSE cap0
           put == Min2(cap, ringplan.m - ringplan.total)
       IN  ringplan' = [ringplan EXCEPT
                         !.radii = IF ringplan.total + put < ringplan.m
                                   THEN Append(@, cur_r + conf.target_edge) ELSE @,
                         !.iter = 1 - @,
                         !.counts = Append(@, put),
                         !.total = @ + put]
    /\ UNCHANGED <<shVars, appVars, edges, lca, root, slot, conf, lay, histVars>>

\* the ring loop left: done, or on to the stretch loop of the last ring
\* (lines 2981-2985)
RingExit ==
    /\ ringplan # <<>> /\ ringplan.pc = "rings"
    /\ ~(ringplan.total < ringplan.m /\ Len(ringplan.radii) < MaxRingsPerLevel)
    /\ ringplan' =
          IF ringplan.total < ringplan.m
          THEN [ringplan EXCEPT
                  !.pc = "spill", !.want = ringplan.m - ringplan.total, !.extra = 0,
                  !.cap = RingCap(ringplan.usable, ringplan.radii[Len(ringplan.radii)])]
          ELSE [ringplan EXCEPT !.pc = "done"]
    /\ UNCHANGED <<shVars, appVars, edges, lca, root, slot, conf, lay, histVars>>

\* one iteration of "while cap_last < need_more and extra2 < MAX_EXTRA_STRETCH"
\* (lines 2986-2988)
SpillStep ==
    /\ ringplan # <<>> /\ ringplan.pc = "spill"
    /\ ringplan.cap < ringplan.want /\ ringplan.extra < MaxExtraStretch
    /\ ringplan' = [ringplan EXCEPT
                      !.iter = 1 - @,
                      !.extra = @ + conf.stretch_step,
                      !.cap = RingCap(ringplan.usable,
                                      ringplan.radii[Len(ringplan.radii)]
                                        + ringplan.extra + conf.stretch_step)]
    /\ UNCHANGED <<shVars, appVars, edges, lca, root, slot, conf, lay, histVars>>

\* the last ring stretched and given the children left (lines 2989-2991)
SpillExit ==
    /\ ringplan # <<>> /\ ringplan.pc = "spill"
    /\ ~(ringplan.cap < ringplan.want /\ ringplan.extra < MaxExtraStretch)
    /\ ringplan' = [ringplan EXCEPT
                      !.pc = "done",
                      !.radii = [@ EXCEPT ![Len(@)] = @ + ringplan.extra],
                      !.counts = Append(@, ringplan.want),
                      !.total = @ + ringplan.want]
    /\ UNCHANGED <<shVars, appVars, edges, lca, root, slot, conf, lay, histVars>>

\* the rest of arrange_radial once the root's rings are planned: the
\* children are leaves, the positions are set and the method returns
RadialReturn ==
    /\ ringplan # <<>> /\ ringplan.pc = "done" /\ lay = <<>>
    /\ ArrangeRadial

\* arrange_tree(), which has no loop on a setting
TreeCall ==
    /\ ringplan = <<>> /\ lay = <<>>
    /\ ArrangeTree

\* the steps of the ring planning once assign() has been entered
PlanStep ==
    StretchStep \/ StretchExit \/ RingStep \/ RingExit \/ SpillStep \/ SpillExit

NextRings == RadialEnter \/ PlanStep \/ RadialReturn \/ TreeCall

SpecRings == InitRings /\ [][NextRings]_vars /\ WF_vars(PlanStep)

----------------------------------------------------------------------------
(* The history.  push_history appends a snapshot of the graph to           *)
(* undo_stack and empties redo_stack; undo and redo move the newest        *)
(* snapshot between the stacks and load the one now on top of undo_stack.  *)
(* Names are paths, as in SpecLayout, and None is NoPath.                  *)

\* snapshot(): node_link_data of the graph after _sync_graph_from_scene, and
\* root_node_name.  The graph holds the names, each node's 'pos' and
\* 'last_child_angle', and the edges; size is the size of the item built
\* for a name, which follows from the name
SnapshotOf(ns, ps, sz, es, angles, rt) ==
    [nodes |-> ns, pos |-> ps, size |-> sz, edges |-> es, lca |-> angles, root |-> rt]

Snapshot == SnapshotOf(nodes, npos, nsize, edges, lca, root)

\* undo_stack.append(snap); if len(undo_stack) > HISTORY_LIMIT: pop(0)
PushOn(stack, snap, limit) ==
    LET s == Append(stack, snap)
    IN  IF Len(s) > limit THEN Tail(s) ELSE s

\* push_history(reason) at the end of a handler: the snapshot is of the
\* state the handler leaves
PushHistory ==
    /\ undo_stack' = PushOn(undo_stack, Snapshot', conf'.history_limit)
    /\ redo_stack' = <<>>

\* refresh_scene() on the graph g: an item is built for each of its nodes
\* at its 'pos' (setPos on an item not yet in self.nodes: _on_node_moved
\* returns at once) and an edge item for each of its edges.  The index and
\* the position cache are not touched.
RefreshScene(g) ==
    /\ nodes' = g.nodes
    /\ npos' = g.pos
    /\ nsize' = g.size
    /\ edges' = { e \in g.edges : e \subseteq g.nodes }
    /\ lca' = g.lca
    /\ log' = <<"load">>
    /\ hits' = {} /\ query' = <<>>
    /\ UNCHANGED <<cell, grid, radius, regpos, irregular, call, pos_cache,
                   snap_step, nset, slot, conf, lay, ringplan>>

\* root_node_name after load_snapshot(snap): None for an empty graph
\* (refresh_scene), else the snapshot's root if it is a node, else the last
\* node of the dict
RootLoaded(snap) ==
    IF snap.nodes = {} THEN { NoPath }
    ELSE IF snap.root \in snap.nodes THEN { snap.root }
    ELSE snap.nodes

\* load_snapshot(snap)
LoadSnapshot(snap) ==
    /\ RefreshScene(snap)
    /\ root' \in RootLoaded(snap)

\* undo(): nothing with fewer than two snapshots
Undo ==
    /\ Len(undo_stack) >= 2
    /\ undo_stack' = SubSeq(undo_stack, 1, Len(undo_stack) - 1)
    /\ redo_stack' = Append(redo_stack, undo_stack[Len(undo_stack)])
    /\ LoadSnapshot(undo_stack[Len(undo_stack) - 1])

\* redo(): nothing with an empty redo stack
Redo ==
    /\ redo_stack # <<>>
    /\ redo_stack' = SubSeq(redo_stack, 1, Len(redo_stack) - 1)
    /\ undo_stack' = Append(undo_stack, redo_stack[Len(redo_stack)])
    /\ LoadSnapshot(redo_stack[Len(redo_stack)])

\* the size of the first node's item
SeedSize == <<80, 60>>

\* MindMapApp.__init__ with HISTORY_LIMIT = lim from the settings file:
\* push_history("init") on the empty graph, then, from the single-shot
\* timer, _ensure_root_node_exists creates the first node at the snapped
\* viewport centre and push_history("auto_seed_init")
InitSeeded(lim) ==
    /\ conf = [DefaultConf EXCEPT !.history_limit = lim]
    /\ cell = ClampCell(DefaultCell)
    /\ snap_step = SnapStepDefault /\ nset = 0
    /\ nodes = { <<>> }
    /\ npos = (<<>> :> Snap(SnapStepDefault, DefaultConf.center))
    /\ nsize = (<<>> :> SeedSize)
    /\ pos_cache = npos
    /\ radius = Fix([n \in nodes |-> NodeRadiusPxOf(nodes, nsize, n)])
    /\ grid = IndexOf(nodes, nodes, npos, nsize)
    /\ edges = {} /\ lca = EmptyMap /\ root = <<>>
    /\ regpos = EmptyMap /\ hits = {} /\ query = <<>> /\ irregular = 0 /\ call = <<>>
    /\ log = <<>> /\ slot = <<>> /\ lay = <<>> /\ ringplan = <<>>
    /\ undo_stack = PushOn(PushOn(<<>>, SnapshotOf({}, EmptyMap, EmptyMap, {}, EmptyMap, NoPath),
                                  lim),
                           SnapshotOf(nodes, npos, nsize, edges, lca, root), lim)
    /\ redo_stack = <<>>

----------------------------------------------------------------------------
(* Specification SpecHistory: the application with its history.  Children  *)
(* are added, nodes deleted and renamed, the map is laid out, a JSON file  *)
(* is imported, and undo and redo load snapshots.  The point at which      *)
(* add_node_smart_from_selection puts a child is any of ChildPoints here   *)
(* (SpecSlot has the search that picks it).                                *)

\* pushes are followed until the undo stack holds MaxHistory snapshots
MaxHistory == 3

\* "思维导图", the name _ensure_root_node_exists gives the first node
SeedName == <<>>

\* the names _ensure_unique_name gives to children, in the order it tries them
ChildNameSeq == << <<1>>, <<2>> >>

\* names typed in the rename dialog
TypedNames == { <<3>> }

\* where a child is put
ChildPoints == { <<160, 0>> }

\* the size of the item of a child or of a renamed node
ChildSizes == { <<160, 120>> }

\* the angle at which a child is put, recorded as last_child_angle
ChildAngles == { 90000 }

\* the record [nodes, npos, nsize, pos_cache, radius, grid, root] after
\* _create_node_at(name, pos) on such a record
CreatedIn(st, name, pos, sz) ==
    LET ns == st.nodes \cup {name}
        szs == Put(st.nsize, name, sz)
        r == NodeRadiusPxOf(ns, szs, name)
    IN  [nodes |-> ns,
         npos |-> Put(st.npos, name, pos),
         nsize |-> szs,
         pos_cache |-> Put(st.pos_cache, name, pos),
         radius |-> Put(st.radius, name, r),
         grid |-> InsertGrid(st.grid, name, pos[1], pos[2], r),
         root |-> IF st.root = NoPath THEN name ELSE st.root]

Scene == [nodes |-> nodes, npos |-> npos, nsize |-> nsize, pos_cache |-> pos_cache,
          radius |-> radius, grid |-> grid, root |-> root]

\* root_node_name as _ensure_root_node_exists leaves it with nodes: the
\* first node of the dict when it was None or not a node
RootEnsured(st) == IF st.root \in st.nodes THEN { st.root } ELSE st.nodes

\* _ensure_root_node_exists(): without nodes the first node is created at
\* the snapped viewport centre and made the root
EnsuredRoot(st) ==
    IF st.nodes = {}
    THEN { [c EXCEPT !.root = SeedName] :
             c \in { CreatedIn(st, SeedName, Snap(snap_step, conf.center), SeedSize) } }
    ELSE { [st EXCEPT !.root = rt] : rt \in RootEnsured(st) }

InstallScene(st) ==
    /\ nodes' = st.nodes
    /\ npos' = st.npos
    /\ nsize' = st.nsize
    /\ pos_cache' = st.pos_cache
    /\ radius' = st.radius
    /\ grid' = st.grid
    /\ root' = st.root

\* the first name of ChildNameSeq that no node has
FreshChildName(ns) ==
    ChildNameSeq[CHOOSE i \in 1 .. Len(ChildNameSeq) :
                    /\ ChildNameSeq[i] \notin ns
                    /\ \A k \in 1 .. i - 1 : ChildNameSeq[k] \in ns]

\* add_node_smart_from_selection(): _ensure_root_node_exists, the anchor is
\* the selected node (any node), the child is created at the snapped point
\* and connected to the anchor, whose last_child_angle is set, push_history
AddChild ==
    /\ Len(undo_stack) < MaxHistory
    /\ \E st \in EnsuredRoot(Scene) :
          /\ \E i \in 1 .. Len(ChildNameSeq) : ChildNameSeq[i] \notin st.nodes
          /\ \E anchor \in st.nodes, v \in ChildPoints, sz \in ChildSizes, ang \in ChildAngles :
                LET name == FreshChildName(st.nodes)
                IN  /\ InstallScene(CreatedIn(st, name, Snap(snap_step, v), sz))
                    /\ edges' = edges \cup { {anchor, name} }
                    /\ lca' = RecordChildAngle(lca, anchor, ang, TRUE)
    /\ log' = <<"pos", "insert">>
    /\ hits' = {} /\ query' = <<>>
    /\ UNCHANGED <<cell, regpos, irregular, call, snap_step, nset, slot, conf, lay, ringplan>>
    /\ PushHistory

\* a plausible slip: the root stays the root when it is deleted
RootAfterDeleteKept(ns, rt, name) == { rt }

\* root_node_name after delete_specific_node of name: when the root is
\* deleted, the first remaining node of the dict, None without one
RootAfterDelete(ns, rt, name) ==
    IF name # rt THEN { rt }
    ELSE IF ns \ {name} = {} THEN { NoPath }
    ELSE ns \ {name}

\* delete_specific_node(node_item) and its push_history("delete")
DeleteSpecificNode ==
    /\ Len(undo_stack) < MaxHistory
    /\ \E name \in nodes :
        /\ grid' = RemoveGrid(grid, radius, name, npos[name][1], npos[name][2])
        /\ radius' = Drop(radius, name)
        /\ pos_cache' = Drop(pos_cache, name)
        /\ nodes' = nodes \ {name}
        /\ npos' = Drop(npos, name)
        /\ nsize' = Drop(nsize, name)
        /\ root' \in RootAfterDelete(nodes, root, name)
        /\ edges' = { e \in edges : name \notin e }
        /\ lca' = Drop(lca, name)
    /\ log' = <<"remove">>
    /\ hits' = {} /\ query' = <<>>
    /\ UNCHANGED <<cell, regpos, irregular, call, snap_step, nset, slot, conf, lay, ringplan>>
    /\ PushHistory

\* f with the key old renamed to new
Rekey(f, old, new) ==
    [k \in (DOMAIN f \ {old}) \cup (IF old \in DOMAIN f THEN {new} ELSE {}) |->
        IF k = new THEN f[old] ELSE f[k]]

\* a plausible slip: the root keeps the old name
RootRenamedKept(rt, old, new) == rt

\* root_node_name after a rename
RootRenamed(rt, old, new) == IF rt = old THEN new ELSE rt

\* rename_node: the typed name is taken when no other node has it, set_name
\* gives the item its new text and size, and _update_node_name_in_graph
\* relabels the graph node, rekeys self.nodes, follows with the root and ends
\* with push_history("rename").  The index and _pos_cache are not touched.
RenameNode ==
    /\ Len(undo_stack) < MaxHistory
    /\ \E old \in nodes, new \in TypedNames \ nodes, sz \in ChildSizes :
        /\ nodes' = (nodes \ {old}) \cup {new}
        /\ npos' = Rekey(npos, old, new)
        /\ nsize' = Put(Drop(nsize, old), new, sz)
        /\ lca' = Rekey(lca, old, new)
        /\ edges' = { { IF x = old THEN new ELSE x : x \in e } : e \in edges }
        /\ root' = RootRenamed(root, old, new)
    /\ log' = <<"rename">>
    /\ hits' = {} /\ query' = <<>>
    /\ UNCHANGED <<cell, grid, radius, regpos, irregular, call, pos_cache,
                   snap_step, nset, slot, conf, lay, ringplan>>
    /\ PushHistory

\* the graph of the JSON file: two connected nodes, the second listed first,
\* with a root entry that names a node the file does not hold
ImportFiles ==
    { [nodes |-> { <<>>, <<2>> }, pos |-> (<<>> :> <<0, 0>>) @@ (<<2>> :> <<0, 160>>),
       edges |-> { { <<>>, <<2>> } }, root |-> GhostNode, first |-> <<2>>] }

\* root_node_name after import_map_json: the file's root when it is a node,
\* else the first node; None for an empty graph (refresh_scene)
RootImported(f) ==
    IF f.nodes = {} THEN NoPath
    ELSE IF f.root \in f.nodes THEN f.root
    ELSE f.first

\* import_map_json(): the graph is the file's, refresh_scene, the root, and
\* push_history("import_json")
ImportJson ==
    /\ Len(undo_stack) < MaxHistory
    /\ \E f \in ImportFiles :
        /\ RefreshScene(SnapshotOf(f.nodes, f.pos, [n \in f.nodes |-> SeedSize],
                                   f.edges, EmptyMap, f.root))
        /\ root' = RootImported(f)
    /\ PushHistory

\* a layout button with no node on the canvas: _get_effective_root_node
\* goes to _ensure_root_node_exists, which creates the first node at the
\* snapped viewport centre; either layout then sets it to that same point
ArrangeEmptyScene ==
    /\ nodes = {}
    /\ \E st \in EnsuredRoot(Scene) :
          /\ InstallScene(st)
          /\ lay' = [kind |-> "tree", root |-> SeedName,
                     info |-> TreeDfs((SeedName :> <<>>), SeedName, 0, 0),
                     pos |-> st.npos, kids |-> (SeedName :> <<>>), root0 |-> root]
    /\ log' = <<"pos", "insert", "move">>
    /\ UNCHANGED <<cell, regpos, hits, query, irregular, call, snap_step, nset,
                   edges, lca, slot, conf, ringplan>>

\* the layout buttons: arrange_radial / arrange_tree and their
\* push_history; one layout is followed in a run
ArrangeAndPush ==
    /\ Len(undo_stack) < MaxHistory
    /\ lay = <<>>
    /\ ArrangeRadialScene \/ ArrangeTreeScene \/ ArrangeEmptyScene
    /\ PushHistory

InitHistory == InitSeeded(HistoryLimitDefault)

NextHistory ==
    \/ AddChild
    \/ DeleteSpecificNode
    \/ RenameNode
    \/ ImportJson
    \/ ArrangeAndPush
    \/ Undo
    \/ Redo

SpecHistory == InitHistory /\ [][NextHistory]_vars

----------------------------------------------------------------------------
(* Specification SpecLimit: the stacks against HISTORY_LIMIT.  The limit   *)
(* comes from the settings file, which may hold any number, and later from *)
(* the settings dialog, whose spin box gives 10 .. 500.  The first node is *)
(* dragged between two points; push_history runs without another change   *)
(* of the scene when a node's colour is changed or the history timer that  *)
(* a drag started fires.                                                   *)

\* HISTORY_LIMIT values of a settings file
LimitFileValues == { 1, 11 }

\* values of history_limit_spin (range 10 .. 500)
DialogLimits == { 10 }

LimitPoints == { <<0, 0>>, <<130, 100>> }

InitLimit == \E lim \in LimitFileValues : InitSeeded(lim)

\* the user drags a node
LimitDragNode == DragNodeIn(LimitPoints)

\* _on_node_color_changed(name), or the timeout of _history_timer:
\* push_history("color"), push_history("move")
PushHistoryAlone ==
    /\ log' = <<"push">>
    /\ hits' = {} /\ query' = <<>>
    /\ UNCHANGED <<cell, grid, radius, regpos, irregular, call, nodes, npos, nsize,
                   pos_cache, snap_step, nset, edges, lca, root, slot, conf, lay, ringplan>>
    /\ PushHistory

\* open_settings with the dialog accepted: HISTORY_LIMIT is written from its
\* spin box, the other settings with the values they had; then
\* _update_components_after_settings_change sets the index's cell size
OpenSettingsLimit ==
    \E h \in DialogLimits :
        /\ conf' = [conf EXCEPT !.history_limit = h]
        /\ cell' = Max2(MinCell, IntTrunc(conf.cell_size))
        /\ nset < MaxSettings /\ nset' = nset + 1
        /\ log' = <<"settings">>
        /\ hits' = {} /\ query' = <<>>
        /\ UNCHANGED <<grid, radius, regpos, irregular, call, nodes, npos, nsize,
                       pos_cache, snap_step, edges, lca, root, slot, lay, ringplan, histVars>>

NextLimit == LimitDragNode \/ PushHistoryAlone \/ Undo \/ Redo \/ OpenSettingsLimit

SpecLimit == InitLimit /\ [][NextLimit]_vars

----------------------------------------------------------------------------
\* squared distance test: the circles (x1,y1,r1) and (x2,y2,r2) overlap or touch
CirclesOverlap(x1, y1, r1, x2, y2, r2) ==
    (x1 - x2) * (x1 - x2) + (y1 - y2) * (y1 - y2) <= (r1 + r2) * (r1 + r2)

\* C1: neighbors(x, y, r) has no false negatives: in every state, for every
\* query circle, every registered name whose circle (registered centre,
\* cached radius) overlaps the query circle is in the answer; and the answer
\* recorded by the last neighbors() call is such an answer.
C1_NoFalseNegatives ==
    /\ \A p \in Points, r \in ProbeRadii :
         \A name \in DOMAIN radius :
            CirclesOverlap(regpos[name][1], regpos[name][2], radius[name], p[1], p[2], r)
               => name \in NeighborsOf(grid, p[1], p[2], r)
    /\ query # <<>> =>
         \A name \in DOMAIN radius :
            CirclesOverlap(regpos[name][1], regpos[name][2], radius[name],
                           query[1], query[2], query[3])
               => name \in hits

\* C1 witness: a neighbors() call has returned a registered name whose circle
\* overlaps the query circle although its centre lies in another cell than
\* the query's centre.
C1_Witness ==
    /\ query # <<>>
    /\ \E name \in DOMAIN radius :
          /\ name \in hits
          /\ CirclesOverlap(regpos[name][1], regpos[name][2], radius[name],
                            query[1], query[2], query[3])
          /\ <<regpos[name][1] \div cell, regpos[name][2] \div cell>>
                # <<query[1] \div cell, query[2] \div cell>>

\* C2: every name in the radius cache occurs in exactly the cells its
\* registered circle covers, and a name without radius-cache entry occurs in
\* no cell, after any sequence of insert / move / remove calls, the irregular
\* ones (move or remove of a name never inserted, re-insert elsewhere) included.
C2_CacheMatchesCells ==
    \A name \in Ids :
        IF name \in DOMAIN radius
        THEN CellsOf(grid, name)
                = KeysFor(regpos[name][1], regpos[name][2], radius[name])
        ELSE CellsOf(grid, name) = {}

\* in a handler's log every position change is directly followed by an index
\* call that registers the new position
LogPaired(l) ==
    \A i \in 1 .. Len(l) :
        l[i] = "pos" => i < Len(l) /\ l[i + 1] \in {"move", "insert"}

\* C4: in every state reached by creations, drags, layout position changes
\* and deletions, the names registered in the index (radius cache and
\* buckets) are exactly the existing nodes, each in exactly the cells its
\* circle at its current position covers, the position cache equals the
\* current positions, and within a handler no query comes between a
\* position change and the index call that follows it.
C4_IndexTracksNodes ==
    /\ DOMAIN radius = nodes
    /\ DOMAIN pos_cache = nodes
    /\ \A k \in DOMAIN grid : grid[k] \subseteq nodes
    /\ \A n \in nodes :
          /\ pos_cache[n] = npos[n]
          /\ CellsOf(grid, n) = KeysFor(npos[n][1], npos[n][2], radius[n])
    /\ LogPaired(log)

\* C4 witness: two nodes exist and the last handler changed a node's
\* position to another cell footprint and moved the index with it (once in
\* _on_node_moved, once more in _set_node_pos).
C4_Witness ==
    /\ Cardinality(nodes) = 2
    /\ log = <<"pos", "move", "move">>
    /\ \E n \in nodes : Cardinality(CellsOf(grid, n)) > 1

\* the circular distance of two angles
AngDist(a, b) == Abs(((AngleNormalize(a - b) + Pi) % TwoPi) - Pi)

\* C3: whenever _find_free_slot returned through its accepting path, the
\* snapped point of the returned (angle, radius) relative to the anchor is
\* at distance >= (radius of the new node + cached radius of the other
\* node) from every node that was registered in the index before the call.
C3_AcceptedSlotIsFree ==
    (slot # <<>> /\ slot.accepted) =>
        \A m \in slot.before :
            LET dx == npos[m][1] - slot.placed[1]
                dy == npos[m][2] - slot.placed[2]
                r_sum == slot.r_new + radius[m]
            IN  dx * dx + dy * dy >= r_sum * r_sum

\* C8 as stated: on an anchor without graph neighbours the returned radius
\* is base_radius and the angle is within pi/2 of pref_angle.
C8_RadiusIsBase ==
    (slot # <<>> /\ slot.nA = 0) =>
        /\ slot.r = SlotBaseRadius
        /\ AngDist(slot.ang, slot.pref) <= HalfPi

\* C8 amended: on an anchor without graph neighbours the returned angle is
\* within pi/2 minus the padding of pref_angle (modulo a full turn), and the
\* radius is base_radius plus a whole number of ring steps: the number of
\* the ring the accepted point was tested on (one step on the fallback
\* path), which is not ring 0 when the anchor's own circle (cached radius
\* plus r_new) covers every snapped point of ring 0.
C8_NoNeighbourSlot ==
    (slot # <<>> /\ slot.nA = 0) =>
        /\ AngDist(slot.ang, slot.pref) <= HalfPi - SlotPad
        /\ slot.r0 = SlotBaseRadius
        /\ slot.ring_i \in 0 .. SlotMaxRings
        /\ slot.r = SlotBaseRadius
                     + (IF slot.accepted THEN slot.ring_i ELSE 1) * SlotRing
        /\ LET cover == slot.r_new + radius[slot.anchor] - SlotBaseRadius
           IN  (cover > 0 /\ 2 * cover * cover >= snap_step * snap_step)
                  => slot.r > SlotBaseRadius

\* C8 witness: a call on an anchor without graph neighbours, with a second,
\* non-adjacent node registered, accepted a point beyond the base ring at
\* an angle other than the preferred one.
C8_Witness ==
    /\ slot # <<>>
    /\ slot.nA = 0
    /\ slot.accepted
    /\ Cardinality(slot.before) = 2
    /\ slot.r = SlotBaseRadius + SlotRing
    /\ slot.ang # AngleNormalize(slot.pref)

\* the nodes other than the anchor whose attributes differ between two
\* attribute maps
OtherAttrsChanged(a0, a1, anchor) ==
    { n \in (DOMAIN a0 \cup DOMAIN a1) \ {anchor} :
        \/ (n \in DOMAIN a0) # (n \in DOMAIN a1)
        \/ (n \in DOMAIN a0 /\ n \in DOMAIN a1 /\ a0[n] # a1[n]) }

\* C12: at every return of _find_free_slot, accepting or fallback, the
\* anchor's last_child_angle is the angle returned; no other node's
\* attribute, no node position and nothing of the index differs from the
\* scene at the call; the rest of add_node_smart_from_selection keeps the
\* attribute that was written.
C12_ReturnRecordsAngle ==
    slot # <<>> =>
        /\ slot.anchor \in DOMAIN slot.scene1.lca
        /\ slot.scene1.lca[slot.anchor] = slot.ang
        /\ OtherAttrsChanged(slot.scene0.lca, slot.scene1.lca, slot.anchor) = {}
        /\ slot.scene1.npos = slot.scene0.npos
        /\ slot.scene1.grid = slot.scene0.grid
        /\ slot.scene1.radius = slot.scene0.radius
        /\ lca = slot.scene1.lca

\* C12 witness: a fallback return whose angle differs from the one the
\* anchor had recorded before, with another node in the scene
C12_Witness ==
    /\ slot # <<>>
    /\ ~slot.accepted
    /\ slot.anchor \in DOMAIN slot.scene0.lca
    /\ slot.scene0.lca[slot.anchor] # slot.ang
    /\ lca[slot.anchor] = slot.ang
    /\ Cardinality(slot.before) >= 2

\* the radius of the last ring the search of _find_free_slot tries
LastTriedRadius == slot.r0 + SlotMaxRings * SlotRing

\* C21: a fallback return of _find_free_slot gives the gap-centre angle and
\* the radius of the last ring tried plus one ring step.
C21_FallbackBeyondLastRing ==
    (slot # <<>> /\ ~slot.accepted) =>
        /\ slot.ang = slot.sec.center
        /\ slot.r = LastTriedRadius + SlotRing

\* the angle x lies in the padded gap sec, going round from its start a0
InGap(x, sec) == (x - sec.a0) % TwoPi <= sec.width

\* every accepted angle lies in the selected padded gap
AcceptedInGap ==
    (slot # <<>> /\ slot.accepted) => InGap(slot.ang, slot.sec)

\* a point is within r_new plus the cached radius of a node registered at the
\* call of _find_free_slot
BlockedAtCall(p) ==
    \E nm \in slot.before :
        LET dx == slot.scene0.npos[nm][1] - p[1]
            dy == slot.scene0.npos[nm][2] - p[2]
            r_sum == slot.r_new + slot.scene0.radius[nm]
        IN  dx * dx + dy * dy < r_sum * r_sum

\* the i-th angle of the order centre, centre + 10, centre - 10, centre + 20, ...
OrderedAngle(i) ==
    IF i = 1 THEN slot.sec.center
    ELSE AngleNormalize(slot.sec.center
                          + (IF i % 2 = 0 THEN 1 ELSE -1) * (i \div 2) * CandStep)

\* how many angles that order has up to half the gap width
OrderedCount == 2 * ((slot.sec.width \div 2) \div CandStep) + 1

\* the i-th angle is inside the gap and the cone the search uses
Admissible(i) == InSector(OrderedAngle(i), slot.sec, slot.pref, slot.nA)

\* candidate i of ring g can have been found occupied
FoundOccupied(g, i) ==
    \E p \in TestPoints(slot.scene0.npos[slot.anchor], slot.r0 + g * SlotRing,
                        OrderedAngle(i), g) : BlockedAtCall(p)

\* C23: the accepted candidate is admissible and its tested point free, it
\* is on a ring from the base radius outward and among the angles centre,
\* +10, -10, +20, -20, ... up to half the gap width, and every admissible
\* candidate before it in that order (rings first, then angles) was
\* occupied.
C23_FirstFreeCandidate ==
    (slot # <<>> /\ slot.accepted) =>
        /\ slot.ring_i \in 0 .. SlotMaxRings
        /\ slot.r = slot.r0 + slot.ring_i * SlotRing
        /\ slot.cand \in 1 .. OrderedCount
        /\ slot.ang = OrderedAngle(slot.cand)
        /\ Admissible(slot.cand)
        /\ ~BlockedAtCall(slot.tested)
        /\ \A g \in 0 .. slot.ring_i, i \in 1 .. OrderedCount :
              (Admissible(i) /\ (g < slot.ring_i \/ i < slot.cand))
                 => FoundOccupied(g, i)

\* C23 witness: a candidate was accepted on a ring beyond the first, at an
\* angle other than the centre, after an admissible candidate of the same
\* ring was found occupied
C23_Witness ==
    /\ slot # <<>> /\ slot.accepted
    /\ slot.ring_i >= 1 /\ slot.cand >= 3
    /\ \E i \in 1 .. (slot.cand - 1) :
          Admissible(i) /\ FoundOccupied(slot.ring_i, i)

\* C27: the snapped point add_node_smart_from_selection creates the node at
\* is the snapped point _find_free_slot tested, on every ring.
C27_PlacedIsTested ==
    (slot # <<>> /\ slot.accepted) => slot.placed = slot.tested

\* on the first ring, where no jitter is applied, the two points are one
PlacedIsTestedOnRingZero ==
    (slot # <<>> /\ slot.accepted /\ slot.ring_i = 0) => slot.placed = slot.tested

\* C22: every angle the search of _find_free_slot accepts is within half of
\* max(60, 120 - 10 x number of neighbours) degrees of the preferred
\* direction, and inside the selected padded gap.
C22_AcceptedInCone ==
    (slot # <<>> /\ slot.accepted) =>
        /\ 2 * AngDist(slot.ang, slot.pref) <= ConeLimit(slot.nA)
        /\ InGap(slot.ang, slot.sec)

----------------------------------------------------------------------------
(* The layouts.  lay records the last layout run: its kind, the root it    *)
(* used, what it entered for every node and the targets it set.            *)

\* the children the last radial layout gave p
LayKids(p) == { c \in DOMAIN lay.info : lay.info[c].par = p }

\* the sector from a0 to a1 lies inside the sector from b0 to b1
SectorWithin(a0, a1, b0, b1) ==
    /\ b0 <= a0 /\ a0 <= b1
    /\ b0 <= a1 /\ a1 <= b1

\* C5: after arrange_radial, for every node n other than the root that has
\* children, the sectors forwarded to two distinct children of n do not
\* overlap and each lies inside the sector n itself received, also when
\* that sector is narrower than twice the padding.
C5_SectorsNested ==
    (lay # <<>> /\ lay.kind = "radial") =>
        \A c \in DOMAIN lay.info :
            LET n == lay.info[c].par
            IN  /\ n # lay.root =>
                      SectorWithin(lay.info[c].a0, lay.info[c].a1,
                                   lay.info[n].a0, lay.info[n].a1)
                /\ \A d \in LayKids(n) \ {c} :
                      \/ lay.info[c].a1 <= lay.info[d].a0
                      \/ lay.info[d].a1 <= lay.info[c].a0

\* C6: after arrange_radial, no two children of one node have the same
\* (angle, ring radius) pair.
C6_DistinctAngleRadius ==
    (lay # <<>> /\ lay.kind = "radial") =>
        \A c \in DOMAIN lay.info :
            \A d \in LayKids(lay.info[c].par) \ {c} :
                <<lay.info[c].ang, lay.info[c].r>> # <<lay.info[d].ang, lay.info[d].r>>

\* the nodes the last layout positioned that have no child in its tree
LayLeaves == { n \in DOMAIN lay.pos : lay.kids[n] = <<>> }

\* the nodes below n in the order the depth-first traversal visits them
RECURSIVE DfsOrder(_, _)
DfsOrder(kids, n) ==
    IF Len(kids[n]) = 0 THEN <<n>>
    ELSE <<n>> \o DfsOrder(kids, kids[n][1])
             \o (IF Len(kids[n]) = 1 THEN <<>>
                 ELSE Tail(DfsOrder([kids EXCEPT ![n] = Tail(@)], n)))

\* the depth-first traversal of the last layout's tree, children in the
\* order the layout took them, visits p before q
DfsBefore(p, q) ==
    \E ord \in { DfsOrder(lay.kids, lay.root) } :
    \E i \in 1 .. Len(ord), j \in 1 .. Len(ord) : i < j /\ ord[i] = p /\ ord[j] = q

RootKidRadii == { lay.info[c].r : c \in LayKids(lay.root) }

\* the scenario of C9: a radial layout of a root with 8 children, base
\* radius 160, ring step 160 (MIN_CHORD_RATIO is 0.8 throughout)
C9_Scenario ==
    /\ lay # <<>> /\ lay.kind = "radial"
    /\ conf.base_r = 160 /\ conf.target_edge = 160
    /\ Cardinality(LayKids(lay.root)) = 8

\* C9 as stated: in the scenario the 8 children are all at ring radius 160,
\* or on exactly two rings of radii 160 and 320.
C9_RingsFromBase ==
    C9_Scenario => (RootKidRadii = { 160 } \/ RootKidRadii = { 160, 320 })

\* C9: in the scenario the first ring is at base radius + ring step = 320;
\* the 8 children are all on one ring at 320 + 40 k for a k in 0 .. 12 (the
\* ring stretched in steps of RADIAL_STRETCH_STEP up to MAX_EXTRA_STRETCH
\* ring steps), or on two to four rings 320, 480, ... one ring step apart.
C9_RingsFromBasePlusStep ==
    C9_Scenario =>
        LET first == conf.base_r + conf.target_edge
            steps == ((MaxExtraStretchPct * conf.target_edge) \div 100) \div RadialStretchStep
        IN  \/ \E k \in 0 .. steps : RootKidRadii = { first + k * RadialStretchStep }
            \/ \E rings \in 2 .. MaxRingsPerLevel :
                  RootKidRadii = { first + j * conf.target_edge : j \in 0 .. (rings - 1) }

C9_Witness ==
    /\ C9_Scenario
    /\ RootKidRadii = { 320, 480, 640 }
    /\ \A c \in LayKids(lay.root) : lay.info[c].r # 160

\* the scenario of C10: a layout was run and its root has no children
C10_Scenario ==
    /\ lay # <<>>
    /\ \A e \in edges : lay.root \notin e

\* v is the multiple of step nearest to c, the even multiple of the two when
\* c is half-way
NearestOnGrid(v, c, step) ==
    /\ v % step = 0
    /\ 2 * Abs(v - c) <= step
    /\ 2 * Abs(v - c) = step => (v \div step) % 2 = 0

\* where a scene has node n before any layout
PutAt(n) == <<snap_step * Len(n), IF n = <<>> THEN 0 ELSE snap_step * n[Len(n)]>>

\* C10 as stated: for a root with no children either layout positions
\* exactly one node, the root, at the viewport centre.
C10_RootAtAnchor ==
    C10_Scenario =>
        /\ DOMAIN lay.pos = { lay.root }
        /\ npos[lay.root] = conf.center

\* C10: for a root with no children either layout positions exactly one
\* node, the root, at the viewport centre snapped to the grid (each
\* coordinate the nearest multiple of the snap step); a node outside the
\* tree stays where it was put.
C10_RootAtSnappedAnchor ==
    C10_Scenario =>
        /\ DOMAIN lay.pos = { lay.root }
        /\ npos[lay.root] = lay.pos[lay.root]
        /\ NearestOnGrid(npos[lay.root][1], conf.center[1], snap_step)
        /\ NearestOnGrid(npos[lay.root][2], conf.center[2], snap_step)
        /\ \A n \in nodes \ { lay.root } : npos[n] = PutAt(n)

C10_Witness ==
    /\ C10_Scenario
    /\ lay.kind = "tree"
    /\ LooseNode \in nodes
    /\ npos[lay.root] # conf.center
    /\ npos[lay.root] = <<0, 40>>

\* how many times the last layout's tree has n: as the root, as a child
Placements(n) ==
    (IF n = lay.root THEN 1 ELSE 0)
    + Cardinality({ <<p, i>> \in UNION { { <<q, j>> : j \in 1 .. Len(lay.kids[q]) } :
                                          q \in DOMAIN lay.kids } :
                    lay.kids[p][i] = n })

\* how many entries of the log l are e
RECURSIVE LogCount(_, _)
LogCount(l, e) ==
    IF l = <<>> THEN 0 ELSE (IF Head(l) = e THEN 1 ELSE 0) + LogCount(Tail(l), e)

\* C14: arrange_radial gives a position exactly once to every node reachable
\* from the root in the graph (the root and each node of the breadth-first
\* tree) and to no other, and every child's ring index is an index of its
\* parent's list of ring radii.
C14_EveryNodeOnceValidRing ==
    (lay # <<>> /\ lay.kind = "radial") =>
        \E reach \in { DOMAIN BfsLevels({lay.root}, {}, 0, EmptyMap) } :
            /\ DOMAIN lay.pos = reach
            /\ \A n \in reach : Placements(n) = 1 /\ npos[n] = lay.pos[n]
            /\ LogCount(log, "move") - LogCount(log, "pos") = Cardinality(reach)
            /\ \A n \in reach \ { lay.root } :
                  /\ lay.info[n].ring \in 1 .. lay.info[n].rings
                  /\ lay.info[n].rings <= MaxRingsPerLevel

\* C14 witness: a radial layout of a graph with a cycle (a node with two
\* neighbours nearer the root), some children on a second ring
C14_Witness ==
    /\ lay # <<>> /\ lay.kind = "radial"
    /\ Cardinality(edges) >= Cardinality(DOMAIN lay.pos)
    /\ \E n \in DOMAIN lay.info : lay.info[n].ring >= 2

\* C13: the children lists a layout processes are fixed by the graph, the
\* root and the node names: whatever the order the graph lists neighbours in
\* (the order nodes and edges were added), the lists are the same, also for
\* names that differ in letter case only; so two runs give every node the
\* same position.
C13_OrderFromNamesOnly ==
    lay # <<>> => \A rank \in AdjRanks : lay.kids = ChildrenMap(lay.root, rank)

\* the square of the distance of two points
Dist2(p, q) == (p[1] - q[1]) * (p[1] - q[1]) + (p[2] - q[2]) * (p[2] - q[2])

\* C15: a layout called with a root that is None or no node, on a graph with
\* a node, completes with a root that is an existing node: the root the
\* application had if that was an existing node, else an existing node
\* nearest the viewport centre.
C15_EffectiveRootUsed ==
    lay # <<>> =>
        /\ lay.root \in nodes
        /\ root = lay.root
        /\ lay.root \in DOMAIN lay.pos /\ npos[lay.root] = lay.pos[lay.root]
        /\ lay.root0 \in nodes => lay.root = lay.root0
        /\ lay.root0 \notin nodes =>
              \A m \in nodes : Dist2(PutAt(lay.root), conf.center)
                                   <= Dist2(PutAt(m), conf.center)

\* C15 witness: the application had no usable root (None, or the name of a
\* deleted node), several nodes exist, and the layout took a node other than
\* the first created as its root
C15_Witness ==
    /\ lay # <<>>
    /\ lay.root0 \notin nodes
    /\ Cardinality(nodes) >= 2
    /\ lay.root # <<>>
    /\ lay.root \in nodes

----------------------------------------------------------------------------
(* Claims on the index's single calls (SpecSH)                             *)

\* the radius the call found cached for its name (0.0 when there was none)
CallRadius == Get(call.radius0, call.name, 0)

\* C11: a move(id, old, new) whose covered-cell set at old equals the one at
\* new changes nothing: the grid (its keys and every bucket) and the radius
\* cache are after the call what they were before it.
C11_MoveSameCellsNoChange ==
    (/\ call # <<>>
     /\ call.op = "move"
     /\ KeysFor(call.p[1], call.p[2], CallRadius)
            = KeysFor(call.q[1], call.q[2], CallRadius))
    => (grid = call.grid0 /\ radius = call.radius0)

\* C11 witness: a registered name has been moved between two different
\* centres that cover the same cells
C11_Witness ==
    /\ call # <<>>
    /\ call.op = "move"
    /\ call.name \in DOMAIN call.radius0
    /\ call.p # call.q
    /\ KeysFor(call.p[1], call.p[2], CallRadius)
            = KeysFor(call.q[1], call.q[2], CallRadius)
    /\ CellsOf(grid, call.name) # {}

\* C17: insert is idempotent: once insert(id, x, y, r) has returned, the same
\* insert made again leaves the grid and the radius cache exactly as the
\* first left them.
C17_InsertIdempotent ==
    (call # <<>> /\ call.op = "insert")
    => /\ InsertGrid(grid, call.name, call.p[1], call.p[2], call.r) = grid
       /\ Put(radius, call.name, call.r) = radius

\* C17 witness: the same insert has been made a second time, on a name that
\* shares a cell with another name, and the index is as it was before
C17_Witness ==
    /\ call # <<>>
    /\ call.op = "insert"
    /\ call.name \in DOMAIN call.radius0
    /\ call.radius0[call.name] = call.r
    /\ regpos[call.name] = call.p
    /\ KeysFor(call.p[1], call.p[2], call.r) \subseteq CellsOf(call.grid0, call.name)
    /\ \E k \in DOMAIN grid : Cardinality(grid[k]) = 2 /\ call.name \in grid[k]
    /\ grid = call.grid0 /\ radius = call.radius0

\* remove(id, x, y) on an id without a radius-cache entry changes nothing
RemoveUnknownIsNoOp ==
    (call # <<>> /\ call.op = "remove" /\ call.name \notin DOMAIN call.radius0)
    => (grid = call.grid0 /\ radius = call.radius0)

\* remove(id, x, y) on a cached id, at the centre it was last registered at,
\* leaves the id in no bucket and without a radius-cache entry
RemoveRegisteredIsGone ==
    (call # <<>> /\ call.op = "remove" /\ call.name \in DOMAIN call.radius0)
    => (CellsOf(grid, call.name) = {} /\ call.name \notin DOMAIN radius)

\* C18: remove(id, x, y) is a no-op (grid with its keys, radius cache) for an
\* id that is not registered, whatever (x, y); and a registered id removed at
\* its registered position is afterwards in no bucket and has no radius-cache
\* entry.
C18_RemoveContract == RemoveUnknownIsNoOp /\ RemoveRegisteredIsGone

\* C19: after any sequence of insert / move / remove / neighbors calls the
\* grid map has no key whose bucket is empty.
C19_NoEmptyBucket == \A k \in DOMAIN grid : grid[k] # {}

\* C19 witness: a move or remove has emptied a bucket, which is gone from the
\* map, while another name keeps other buckets
C19_Witness ==
    /\ call # <<>>
    /\ call.op \in {"move", "remove"}
    /\ \E k \in DOMAIN call.grid0 \ DOMAIN grid : call.grid0[k] = {call.name}
    /\ \E k \in DOMAIN grid : call.name \notin grid[k]

\* the call found its name registered at its first centre: a radius is
\* cached and the name is in exactly the cells that centre and radius cover
CallRegistered ==
    /\ call.name \in DOMAIN call.radius0
    /\ CellsOf(call.grid0, call.name)
          = KeysFor(call.p[1], call.p[2], call.radius0[call.name])

\* the cells covered at the old and at the new centre of a move
CallOldKeys == KeysFor(call.p[1], call.p[2], CallRadius)

CallNewKeys == KeysFor(call.q[1], call.q[2], CallRadius)

\* the buckets that differ between two grids (an absent bucket is empty)
BucketsChanged(g0, g1) ==
    { k \in DOMAIN g0 \cup DOMAIN g1 : Get(g0, k, {}) # Get(g1, k, {}) }

\* C25: a move of a name registered at its old centre leaves the grid and
\* the radius cache as remove(name, old) followed by insert(name, new,
\* cached radius) would; only buckets of cells covered at one of the two
\* centres and not at the other differ from before, and every other name
\* is in the cells it was in.
C25_MoveIsRemoveInsert ==
    (call # <<>> /\ call.op = "move" /\ CallRegistered) =>
        /\ grid = InsertGrid(RemoveGrid(call.grid0, call.radius0, call.name,
                                        call.p[1], call.p[2]),
                             call.name, call.q[1], call.q[2], CallRadius)
        /\ radius = Put(Drop(call.radius0, call.name), call.name, CallRadius)
        /\ BucketsChanged(call.grid0, grid)
              \subseteq ((CallOldKeys \ CallNewKeys) \cup (CallNewKeys \ CallOldKeys))
        /\ \A o \in Ids \ {call.name} : CellsOf(grid, o) = CellsOf(call.grid0, o)

\* C25 witness: a registered name was moved to a centre covering other
\* cells, some cells being covered at both centres and shared with another
\* name, so that buckets were left, entered and kept
C25_Witness ==
    /\ call # <<>> /\ call.op = "move" /\ CallRegistered
    /\ CallOldKeys \ CallNewKeys # {}
    /\ CallNewKeys \ CallOldKeys # {}
    /\ \E k \in CallOldKeys \cap CallNewKeys :
          \E o \in Ids \ {call.name} : o \in grid[k]

----------------------------------------------------------------------------
(* Claims on the cell size (SpecSettings)                                  *)

\* C20: the index's cell size is at least 40 in every reachable state (after
\* construction from any configured value, after a settings change, after a
\* full rebuild), and a configured size below 40 gives the cell size 40.
C20_CellAtLeastMin ==
    /\ cell >= MinCell
    /\ conf.cell_size < 10 * MinCell => cell = MinCell

\* C20 witness: the settings hold a size below 40 and the index has been
\* rebuilt with nodes in it
C20_Witness ==
    /\ conf.cell_size < 10 * MinCell
    /\ log = <<"rebuild">>
    /\ nodes # {}
    /\ DOMAIN radius = nodes
    /\ cell = MinCell

\* the cells in which the index holds a name, against the cells its circle
\* of the cached radius at point p covers under the present cell size
RegisteredAt(n, p) ==
    /\ n \in DOMAIN radius
    /\ CellsOf(grid, n) = KeysFor(p[1], p[2], radius[n])

\* no bucket is empty and no bucket holds a name without a cached radius
NoStrayEntry == \A k \in DOMAIN grid : grid[k] # {} /\ grid[k] \subseteq DOMAIN radius

\* C24: a step of _rebuild_spatial_hash ends, whatever the index held
\* before, with an index that registers exactly the existing nodes, each
\* with its node radius at the position that was cached for it before the
\* step (its current position when none was cached), the cache holding
\* that position afterwards, and with no other entry in any bucket
C24_RebuildRegistersNodes ==
    [][ log' = <<"rebuild">> =>
          /\ DOMAIN radius' = nodes'
          /\ nodes' = nodes
          /\ NoStrayEntry'
          /\ \A n \in nodes :
                /\ radius'[n] = NodeRadiusPx(n)'
                /\ n \in DOMAIN pos_cache'
                /\ \E p \in { Get(pos_cache, n, npos[n]) } :
                      pos_cache'[n] = p /\ RegisteredAt(n, p)' ]_vars

\* a rebuild of an index whose cell size the settings dialog had changed
\* under two registered nodes, so that its buckets were those of another
\* cell size
C24_Witness ==
    /\ log = <<"rebuild">>
    /\ nset = 1
    /\ Cardinality(nodes) = 2
    /\ cell = 240
    /\ \A n \in nodes : RegisteredAt(n, npos[n])

\* neighbors(x, y, r) returns every registered node whose circle overlaps the
\* query circle, for the query circles of ProbeRadii around RawPoints
FoundWhereOverlapping ==
    \A n \in nodes \cap DOMAIN radius : \A p \in RawPoints, r \in ProbeRadii :
        CirclesOverlap(pos_cache[n][1], pos_cache[n][2], radius[n], p[1], p[2], r)
            => n \in NeighborsOf(grid, p[1], p[2], r)

\* C28: once the settings dialog has been accepted, the cell size possibly
\* changed under registered nodes, every registered node is still returned
\* by neighbors for every query circle its circle overlaps, and the moves
\* and removals that follow leave no bucket holding a name that is not
\* registered
C28_SettingsKeepIndex ==
    nset > 0 => FoundWhereOverlapping /\ NoStrayEntry

----------------------------------------------------------------------------
(* Claims on the history stacks (SpecLimit)                                *)

\* the step is an undo: only undo lengthens redo_stack
UndoStep == Len(redo_stack') = Len(redo_stack) + 1

\* the step is a push_history: only it, with a redo stack to empty or not,
\* leaves the log "push"
PushStep == log' = <<"push">>

\* the stacks a redo leaves from the stacks u, r
AfterRedo(u, r) == <<Append(u, r[Len(r)]), SubSeq(r, 1, Len(r) - 1)>>

\* C29: whatever pushes, undos, redos and changes of HISTORY_LIMIT came
\* before, a push_history leaves at most HISTORY_LIMIT snapshots on the
\* undo stack and an empty redo stack; an undo leaves at least one snapshot
\* on the undo stack, and a redo right after it would leave both stacks as
\* they were before the undo
C29_StacksWithinLimit ==
    [][ /\ PushStep => Len(undo_stack') <= conf'.history_limit /\ redo_stack' = <<>>
        /\ UndoStep => /\ Len(undo_stack') >= 1
                       /\ AfterRedo(undo_stack', redo_stack') = <<undo_stack, redo_stack>>
      ]_vars

\* the same without the bound on the undo stack
UndoRedoRoundTrip ==
    [][ /\ PushStep => redo_stack' = <<>>
        /\ UndoStep => /\ Len(undo_stack') >= 1
                       /\ AfterRedo(undo_stack', redo_stack') = <<undo_stack, redo_stack>>
      ]_vars

----------------------------------------------------------------------------
(* Claims on the root and on loaded snapshots (SpecHistory)                *)

LoadedNodesSeen ==
    log = <<"load">> =>
        \A n \in nodes :
            n \in NeighborsOf(grid, npos[n][1], npos[n][2],
                              Max2(MinNodeDistance \div 2, NodeRadiusPxOf(nodes, nsize, NoPath)))

\* C26: when a snapshot has been loaded (undo, redo) or a file imported and
\* the scene refreshed, the index and the position cache register exactly
\* the nodes of the loaded graph, each at its loaded position, so that a
\* collision query that follows sees every one of them and no other
C26_LoadedSceneIndexed ==
    log = <<"load">> =>
        /\ DOMAIN radius = nodes
        /\ DOMAIN pos_cache = nodes
        /\ \A n \in nodes : pos_cache[n] = npos[n] /\ RegisteredAt(n, npos[n])
        /\ NoStrayEntry

----------------------------------------------------------------------------
(* Claims on termination (SpecRings)                                       *)

\* the ring planning, taken step by step, ends with the plan RingPlan gives
\* and arrange_radial uses it for the root's children
RingsAgreeWithPlan ==
    (ringplan # <<>> /\ ringplan.pc = "done") =>
        /\ [radii |-> ringplan.radii, counts |-> ringplan.counts]
              = RingPlan(ringplan.m, ringplan.usable, ringplan.r_base)
        /\ lay # <<>> =>
              \A c \in DOMAIN lay.info :
                 lay.info[c].r = ringplan.radii[lay.info[c].ring]

\* a call of arrange_radial is past its loops
PlanDone == ringplan # <<>> /\ ringplan.pc = "done"

\* with a positive stretch step the loops of every call of arrange_radial end
LoopsEndWhenStepPositive ==
    (ringplan # <<>> /\ conf.stretch_step > 0) ~> PlanDone

\* C16: the stretch loop, the ring loop and the spill loop of every call of
\* arrange_radial that has started end after finitely many iterations,
\* whatever stretch step and ring step the settings file held, so that the
\* call can place the children and return.
C16_EveryCallReturns ==
    (ringplan # <<>>) ~> PlanDone

====
